---- MODULE Spec2Model ----
(***************************************************************************)
(* EthWalletAgent: the wallet-transaction summarisation pipeline           *)
(* (summarizeTokenTransactions and its helpers) in its deployed variants.  *)
(*                                                                         *)
(*   "scan"     src/src/ETHWalletScanFunction.js:25-106  (balance filter)  *)
(*   "legacy"   src/src/ETHWalletScanFunction.js:117-158 (= part_009)      *)
(*   "strict"   src/src/ETHWalletScanFunction.js:168-231                   *)
(*   "rotating" src/unnamed/part_010:93-178   (API-key rotation)           *)
(*   "summary"  src/unnamed/part_008:39-190   (calculateTokenSummary)      *)
(*                                                                         *)
(* Strings that the code inspects character by character (addresses) are   *)
(* sequences of one-character strings; messages the code only compares or  *)
(* forwards are TLA+ strings.  A JavaScript value handed to the pipeline   *)
(* is a record [t |-> its typeof, s |-> its characters].                   *)
(***************************************************************************)
EXTENDS Integers, Sequences, FiniteSets, TLC

(***************************************************************************)
(* Bounds of the model.                                                    *)
(***************************************************************************)
\* longest list of transfer records the token-transaction API returns
MaxTx == 2
\* largest number of ETHERSCAN_API_KEYn variables that are configured
MaxKeys == 2

(***************************************************************************)
(* Characters and strings.                                                 *)
(***************************************************************************)
\* {40} of /^0x[a-fA-F0-9]{40}$/
HexLen == 40

Digits == {"0", "1", "2", "3", "4", "5", "6", "7", "8", "9"}
LowerHex == {"a", "b", "c", "d", "e", "f"}
UpperHex == {"A", "B", "C", "D", "E", "F"}

\* the character class [a-fA-F0-9]
IsHexChar(c) == c \in Digits \cup LowerHex \cup UpperHex

\* String.prototype.toLowerCase on one character
LowerChar(c) ==
  CASE c = "A" -> "a" [] c = "B" -> "b" [] c = "C" -> "c" [] c = "D" -> "d"
    [] c = "E" -> "e" [] c = "F" -> "f" [] c = "G" -> "g" [] c = "X" -> "x"
    [] OTHER -> c

\* String.prototype.toLowerCase
ToLowerCase(s) == [i \in 1..Len(s) |-> LowerChar(s[i])]

\* white space as String.prototype.trim sees it
IsSpace(c) == c \in {" ", "\n", "\t"}

RECURSIVE TrimLeft(_)
TrimLeft(s) ==
  IF s = <<>> THEN s
  ELSE IF IsSpace(Head(s)) THEN TrimLeft(Tail(s)) ELSE s

RECURSIVE TrimRight(_)
TrimRight(s) ==
  IF s = <<>> THEN s
  ELSE IF IsSpace(s[Len(s)]) THEN TrimRight(SubSeq(s, 1, Len(s) - 1)) ELSE s

\* String.prototype.trim
Trim(s) == TrimRight(TrimLeft(s))

\* the anchored match of /^0x[a-fA-F0-9]{40}$/ on a string
MatchesAddressUnanchored(s) ==
  /\ Len(s) >= 2 + HexLen
  /\ s[1] = "0"
  /\ s[2] = "x"
  /\ \A i \in 3..(2 + HexLen) : IsHexChar(s[i])

MatchesAddress(s) ==
  /\ Len(s) = 2 + HexLen
  /\ s[1] = "0"
  /\ s[2] = "x"
  /\ \A i \in 3..Len(s) : IsHexChar(s[i])

(***************************************************************************)
(* JavaScript values handed to summarizeTokenTransactions.                 *)
(***************************************************************************)
Str(s) == [t |-> "string", s |-> s]
JsNull == [t |-> "null", s |-> <<"n", "u", "l", "l">>]
JsUndefined == [t |-> "undefined", s |-> <<"u", "n", "d", "e", "f", "i", "n", "e", "d">>]
JsNumber42 == [t |-> "number", s |-> <<"4", "2">>]

\* !value
Falsy(v) == v.t \in {"null", "undefined"} \/ (v.t = "string" /\ v.s = <<>>)

\* `${value}` and the coercion RegExp.prototype.test applies
ToStr(v) == v.s

\* the address of the example of the specification
ExampleAddr ==
  <<"0", "x", "6", "d", "d", "6", "3", "e", "4", "d", "d", "6", "2", "0",
    "1", "b", "2", "0", "b", "c", "7", "5", "4", "b", "9", "3", "b", "0",
    "7", "d", "e", "3", "5", "1", "b", "a", "0", "5", "3", "f", "d", "2">>

UpperChar(c) ==
  CASE c = "a" -> "A" [] c = "b" -> "B" [] c = "c" -> "C" [] c = "d" -> "D"
    [] c = "e" -> "E" [] c = "f" -> "F" [] OTHER -> c

\* the same account written with upper-case hex digits at the odd places
ExampleMixed ==
  [i \in 1..Len(ExampleAddr) |->
     IF i > 2 /\ i % 2 = 1 THEN UpperChar(ExampleAddr[i]) ELSE ExampleAddr[i]]

OtherAddr == <<"0", "x">> \o [i \in 1..HexLen |-> "b"]

ValidInputs == {Str(ExampleAddr), Str(ExampleMixed)}

InvalidStrings ==
  { <<>>,
    SubSeq(ExampleAddr, 3, Len(ExampleAddr)),
    <<"0", "X">> \o SubSeq(ExampleAddr, 3, Len(ExampleAddr)),
    SubSeq(ExampleAddr, 1, Len(ExampleAddr) - 1),
    ExampleAddr \o <<"a">>,
    [ExampleAddr EXCEPT ![10] = "g"],
    [ExampleMixed EXCEPT ![42] = "G"],
    <<" ">> \o ExampleMixed \o <<" ">>,
    ExampleAddr \o <<"\n">> }

Inputs ==
  ValidInputs \cup {Str(s) : s \in InvalidStrings}
              \cup {JsNull, JsUndefined, JsNumber42}

(***************************************************************************)
(* Numbers.  A token amount is a decimal floating-point value m * 10^e in  *)
(* normal form (m carries no trailing zero; zero is m = 0, e = 0).  Within *)
(* the significands of the model a double holds the same value and prints  *)
(* it with the same digits.                                                *)
(***************************************************************************)
DigitVal(c) ==
  CASE c = "0" -> 0 [] c = "1" -> 1 [] c = "2" -> 2 [] c = "3" -> 3
    [] c = "4" -> 4 [] c = "5" -> 5 [] c = "6" -> 6 [] c = "7" -> 7
    [] c = "8" -> 8 [] c = "9" -> 9

RECURSIVE Pow10(_)
Pow10(n) == IF n = 0 THEN 1 ELSE 10 * Pow10(n - 1)

RECURSIVE Normal(_, _)
Normal(m, e) ==
  IF m = 0 THEN [m |-> 0, e |-> 0]
  ELSE IF m % 10 = 0 THEN Normal(m \div 10, e + 1)
  ELSE [m |-> m, e |-> e]

RECURSIVE DigitsValue(_)
DigitsValue(s) ==
  IF s = <<>> THEN 0
  ELSE 10 * DigitsValue(SubSeq(s, 1, Len(s) - 1)) + DigitVal(s[Len(s)])

RECURSIVE TrailingZeros(_)
TrailingZeros(s) ==
  IF s = <<>> \/ s[Len(s)] # "0" THEN 0
  ELSE 1 + TrailingZeros(SubSeq(s, 1, Len(s) - 1))

\* parseFloat on a string of decimal digits
ParseFloat(s) ==
  LET z == TrailingZeros(s)
  IN  Normal(DigitsValue(SubSeq(s, 1, Len(s) - z)), z)

\* x / Math.pow(10, d)
DivPow10(x, d) == IF x.m = 0 THEN x ELSE [m |-> x.m, e |-> x.e - d]

\* x + y
Plus(x, y) ==
  LET lo == IF x.e < y.e THEN x.e ELSE y.e
  IN  Normal(x.m * Pow10(x.e - lo) + y.m * Pow10(y.e - lo), lo)

Zero == [m |-> 0, e |-> 0]

(***************************************************************************)
(* Transfer records as the token-transaction API returns them.             *)
(***************************************************************************)
Tx(from, to, name, value, dec, ts, hash, contract) ==
  [from |-> from, to |-> to, tokenName |-> name, value |-> value,
   tokenDecimal |-> dec, timeStamp |-> ts, hash |-> hash,
   contractAddress |-> contract]

\* 522350000000000000000
ExampleValue ==
  <<"5", "2", "2", "3", "5">> \o [i \in 1..16 |-> "0"]

SampleTx ==
  { Tx(ExampleAddr, OtherAddr, "TokenA", ExampleValue, 18, 300, "0xh1", "0xca"),
    Tx(ExampleMixed, ExampleAddr, "wbtc", <<"1", "5", "0", "0", "0", "0", "0">>, 6, 200, "0xh2", "0xcb"),
    Tx(OtherAddr, ExampleAddr, "TokenA", <<"2", "5", "0">>, 2, 400, "0xh3", "0xca"),
    Tx(OtherAddr, OtherAddr, "wbtc", <<"7">>, 0, 100, "0xh4", "0xcb") }

Contracts == {t.contractAddress : t \in SampleTx}

RECURSIVE SeqsUpTo(_, _)
SeqsUpTo(S, n) ==
  IF n = 0 THEN {<<>>}
  ELSE LET shorter == SeqsUpTo(S, n - 1)
       IN  shorter \cup {Append(q, x) : q \in {r \in shorter : Len(r) = n - 1}, x \in S}

TxLists == SeqsUpTo(SampleTx, MaxTx)

(***************************************************************************)
(* Answers of the block explorer.  http = 200 carries the JSON envelope    *)
(* (status, message, result); any other http is an axios rejection, 0      *)
(* being a failure without a response (network error, timeout).            *)
(***************************************************************************)
Arr(list) == [t |-> "array", list |-> list, text |-> ""]
Text(str) == [t |-> "string", list |-> <<>>, text |-> str]

Envelope(status, message, result) ==
  [http |-> 200, status |-> status, message |-> message, result |-> result]
HttpFailure(code) ==
  [http |-> code, status |-> "", message |-> "", result |-> Text("")]

RateLimitText == "Max rate limit reached"

TokenTxResponses ==
  {Envelope("1", "OK", Arr(l)) : l \in TxLists}
    \cup { Envelope("0", "No transactions found", Arr(<<>>)),
           Envelope("0", "NOTOK", Text(RateLimitText)),
           Envelope("0", "NOTOK", Text("Error! Invalid address format")),
           HttpFailure(429), HttpFailure(404), HttpFailure(0) }

\* the balances a wallet can hold of one token contract
Balances == {"0", "1000"}

BalanceResponses(trueBalance) ==
  { Envelope("1", "OK", Text(trueBalance)),
    Envelope("0", "NOTOK", Text(RateLimitText)),
    HttpFailure(429), HttpFailure(0) }

\* does the answer signal throttling
SignalsThrottling(resp) ==
  \/ resp.http = 429
  \/ resp.http = 200 /\ resp.result.t = "string" /\ resp.result.text = RateLimitText

\* !value for a result field
FalsyResult(r) == r.t = "string" /\ r.text = ""

\* `${value}` for a result field or a message
ResultText(r) ==
  IF r.t = "string" THEN r.text
  ELSE IF r.list = <<>> THEN "" ELSE "[object Object]"

(***************************************************************************)
(* Errors: message is the fixed part of error.message, detail the part     *)
(* interpolated into it, status is error.response?.status (0: undefined).  *)
(***************************************************************************)
Err(message, detail) == [message |-> message, detail |-> detail, status |-> 0]

AxiosError(code) ==
  IF code = 0
    THEN [message |-> "timeout of 10000ms exceeded", detail |-> "", status |-> 0]
    ELSE [message |-> "Request failed with status code", detail |-> ToString(code), status |-> code]

\* error.message.includes('Invalid Ethereum address')
IncludesInvalidEthereumAddress(err) ==
  err.message \in {"Invalid Ethereum address format", "Invalid Ethereum address format: "}

(***************************************************************************)
(* Classification, windows and aggregation.                                *)
(***************************************************************************)
\* slice(0, 10) of the balance-filter variants
ScanWindow == 10
\* slice(0, 20) and the default limit of the other variants
RecentWindow == 20

\* Array.prototype.slice(0, n)
Slice(list, n) == SubSeq(list, 1, IF Len(list) < n THEN Len(list) ELSE n)

\* new Date(parseInt(tx.timeStamp) * 1000).toLocaleString(): the formatted
\* local date and time of the instant, one string per second
LocaleString(ts) == [localeString |-> ts * 1000]

\* tx.from.toLowerCase() === normalizedAddress ? 'outflow' : 'inflow'
FlowOfCaseSensitive(tx, normalizedAddress) ==
  IF tx.from = normalizedAddress THEN "outflow" ELSE "inflow"

FlowOf(tx, normalizedAddress) ==
  IF ToLowerCase(tx.from) = normalizedAddress THEN "outflow" ELSE "inflow"

\* tx.from.toLowerCase() === walletAddress.toLowerCase() ? 'Outflow' : 'Inflow'
DirectionOf(tx, address) ==
  IF ToLowerCase(tx.from) = ToLowerCase(address) THEN "Outflow" ELSE "Inflow"

\* one element of simplifiedTx
Simplified(tx, normalizedAddress) ==
  [flow |-> FlowOf(tx, normalizedAddress),
   tokenName |-> tx.tokenName,
   timestamp |-> LocaleString(tx.timeStamp),
   transactionHash |-> tx.hash,
   contractAddress |-> tx.contractAddress]

\* transactions.map(...).slice(0, 10)
MapThenSliceDistinct(list, normalizedAddress) ==
  LET all == [i \in 1..Len(list) |-> Simplified(list[i], normalizedAddress)]
      keep == {i \in 1..Len(all) :
                 \A j \in 1..(i - 1) : all[j].contractAddress # all[i].contractAddress}
  IN  Slice([k \in 1..Cardinality(keep) |->
               all[CHOOSE i \in keep : Cardinality({j \in keep : j <= i}) = k]],
            ScanWindow)

MapThenSlice(list, normalizedAddress) ==
  Slice([i \in 1..Len(list) |-> Simplified(list[i], normalizedAddress)], ScanWindow)

\* transactions.slice(0, 10).map(...)
SliceThenMap(list, normalizedAddress) ==
  LET head == Slice(list, ScanWindow)
  IN  [i \in 1..Len(head) |-> Simplified(head[i], normalizedAddress)]

\* the two orders with the window size as a parameter
MapThenSliceAt(list, normalizedAddress, n) ==
  Slice([i \in 1..Len(list) |-> Simplified(list[i], normalizedAddress)], n)

SliceThenMapCaseSensitive(list, normalizedAddress, n) ==
  LET head == Slice(list, n)
  IN  [i \in 1..Len(head) |->
         [Simplified(head[i], normalizedAddress)
            EXCEPT !.flow = FlowOfCaseSensitive(head[i], normalizedAddress)]]

SliceThenMapAt(list, normalizedAddress, n) ==
  LET head == Slice(list, n)
  IN  [i \in 1..Len(head) |-> Simplified(head[i], normalizedAddress)]

\* one element of recentTransactions
Recent(tx, address) ==
  [tokenName |-> tx.tokenName,
   value |-> DivPow10(ParseFloat(tx.value), tx.tokenDecimal),
   direction |-> DirectionOf(tx, address),
   timestamp |-> LocaleString(tx.timeStamp),
   contractAddress |-> tx.contractAddress,
   hash |-> tx.hash]

\* b.timestamp - a.timestamp on two formatted date strings: each operand
\* converts to NaN, and so does the difference
TimestampDifference(a, b) == "NaN"

\* the comparator of sort(); Array.prototype.sort reads NaN as 0
CompareRecent(a, b) ==
  LET v == TimestampDifference(a, b) IN IF v = "NaN" THEN 0 ELSE v

\* stable insertion of x into a sorted list
RECURSIVE InsertSorted(_, _)
InsertSorted(sorted, x) ==
  IF sorted = <<>> THEN <<x>>
  ELSE IF CompareRecent(sorted[Len(sorted)], x) > 0
    THEN Append(InsertSorted(SubSeq(sorted, 1, Len(sorted) - 1), x), sorted[Len(sorted)])
    ELSE Append(sorted, x)

\* Array.prototype.sort (stable) with the comparator above
RECURSIVE SortRecent(_)
SortRecent(list) ==
  IF list = <<>> THEN <<>>
  ELSE InsertSorted(SortRecent(SubSeq(list, 1, Len(list) - 1)), list[Len(list)])

\* transactions.map(...).sort(...).slice(0, limit)
RecentTransactions(list, address, limit) ==
  Slice(SortRecent([i \in 1..Len(list) |-> Recent(list[i], address)]), limit)

\* one element of summary.inflows or summary.outflows
SummaryEntry(tx) ==
  [name |-> tx.tokenName, totalMove |-> tx.value, outInflow |-> tx.direction,
   timestamp |-> tx.timestamp, contractAddress |-> tx.contractAddress]

RECURSIVE SelectDirection(_, _)
SelectDirection(list, dir) ==
  IF list = <<>> THEN <<>>
  ELSE LET rest == SelectDirection(Tail(list), dir)
       IN  IF Head(list).direction = dir
             THEN <<SummaryEntry(Head(list))>> \o rest
             ELSE rest

SummaryOfLowercase(recent) ==
  [inflows |-> SelectDirection(recent, "Inflow"),
   outflows |-> SelectDirection(recent, "outflow")]

\* summary = { inflows: [], outflows: [] } after the forEach
SummaryOf(recent) ==
  [inflows |-> SelectDirection(recent, "Inflow"),
   outflows |-> SelectDirection(recent, "Outflow")]

\* filterAndSummarizeTransactions(transactions, walletAddress, limit)
filterAndSummarizeTransactions(list, address, limit) ==
  [summary |-> SummaryOf(RecentTransactions(list, address, limit)),
   UrlToAccount |-> address]

\* the position of the entry of a token name in the summary, 0 when absent
RECURSIVE IndexOfName(_, _)
IndexOfName(acc, name) ==
  IF acc = <<>> THEN 0
  ELSE IF acc[Len(acc)].name = name THEN Len(acc)
  ELSE IndexOfName(SubSeq(acc, 1, Len(acc) - 1), name)

\* names that tokenSummary = {} answers from Object.prototype: for these
\* !tokenSummary[tokenName] is false although the object has no such entry
InheritedKeys ==
  {"constructor", "toString", "valueOf", "hasOwnProperty", "__proto__"}

\* calculateTokenSummary(transactions, walletAddress): Object.values of the
\* object keyed by token name, in the order the names were first seen; the
\* updates for an inherited key land on the inherited object, which
\* Object.values does not list
RECURSIVE calculateTokenSummary(_, _)
calculateTokenSummary(list, address) ==
  IF list = <<>> THEN <<>>
  ELSE LET tx == list[Len(list)]
           acc == calculateTokenSummary(SubSeq(list, 1, Len(list) - 1), address)
           value == DivPow10(ParseFloat(tx.value), tx.tokenDecimal)
           direction == DirectionOf(tx, address)
           k == IndexOfName(acc, tx.tokenName)
       IN  IF tx.tokenName \in InheritedKeys THEN acc
           ELSE IF k = 0
             THEN Append(acc, [name |-> tx.tokenName,
                               totalMove |-> Plus(Zero, value),
                               outInflow |-> direction])
             ELSE [acc EXCEPT ![k] = [name |-> tx.tokenName,
                                      totalMove |-> Plus(acc[k].totalMove, value),
                                      outInflow |-> direction]]

(***************************************************************************)
(* State.                                                                  *)
(***************************************************************************)
VARIABLES
  env,                \* the environment variables that are set
  phase,              \* "boot", "running" or "fatal"
  variant,            \* the deployed variant of the pipeline
  nkeys,              \* apiKeys.length of the rotating variant
  apiIndex,           \* the round-robin index of the rotating variant
  pc,                 \* where the invocation stands
  walletAddress,      \* the argument of the invocation
  normalizedAddress,  \* the address the invocation works with
  balanceOf,          \* the wallet's current balance per token contract
  transactions,       \* response.data.result of the token-transaction call
  simplifiedTx,       \* the classified window of the balance-filter variants
  recentTransactions, \* the classified window of the other variants
  idx,                \* the position of the balance-filter loop
  updatedTransaction, \* the transfers the balance filter kept so far
  payload,            \* what was serialised for the language model
  outcome,            \* what the invocation returned or threw
  log,                \* the external calls issued, in order
  response,           \* the answer to the token-transaction request
  completion,         \* the answer to the language-model call
  throttled,          \* the services that signalled throttling
  host,               \* the entry file that registered the handlers
  handler,            \* the handler that is running, and how it ended
  answer,             \* the answer getTokenBalance has just received
  tokenData,          \* what runApp returned to the invocation
  lastKey,            \* the key taken by the latest key-consuming call
  tokensFile          \* ./tokens.json: whose token data it holds

vars ==
  <<env, phase, variant, nkeys, apiIndex, pc, walletAddress, normalizedAddress,
    balanceOf, transactions, simplifiedTx, recentTransactions, idx,
    updatedTransaction, payload, outcome, log, response, completion,
    throttled, host, handler, answer, tokenData, lastKey, tokensFile>>

deployment == <<env, phase, variant, nkeys, host>>

\* what the pipeline leaves alone outside the balance filter
hostSide == <<handler, answer, tokenData, lastKey, tokensFile>>

Variants == {"scan", "legacy", "strict", "rotating", "summary"}

requiredEnvVars == {"OPENSERV_API_KEY", "ETHERSCAN_API_KEY", "OPENAI_API_KEY"}

\* the entry points that check requiredEnvVars when they are loaded
ChecksEnvNever(v) == FALSE

ChecksEnv(v) == v # "summary"

(***************************************************************************)
(* Results and errors of an invocation.                                    *)
(***************************************************************************)
ProfileUrl == "https://platform.spotonchain.ai/en/profile?address="
Link(address) == [base |-> ProfileUrl, address |-> address]
NoLink == [base |-> "", address |-> <<>>]

Pending ==
  [state |-> "pending", kind |-> "none", text |-> "", detail |-> "",
   status |-> 0, link |-> NoLink]

Returned(kind, text, detail, link) ==
  [state |-> "returned", kind |-> kind, text |-> text, detail |-> detail,
   status |-> 0, link |-> link]

Thrown(err) ==
  [state |-> "thrown", kind |-> "error", text |-> err.message,
   detail |-> err.detail, status |-> err.status, link |-> NoLink]

RateLimitMessage == "Rate limit reached. Please try again in a few minutes."
RotatingRateLimitMessage == "Etherscan API rate limit reached. Please try again later."
ProvideValidMessage ==
  "Please provide a valid Ethereum address (0x followed by 40 hexadecimal characters)."
StrictInvalidMessage ==
  "Invalid Ethereum wallet address format. Must be 42 characters starting with 0x"

\* the catch block of the scan variant
ScanCatchNoRateLimit(error) ==
  IF IncludesInvalidEthereumAddress(error) THEN Err(ProvideValidMessage, "")
  ELSE IF error.status = 404 THEN Err("Address not found or has no transactions.", "")
  ELSE error

ScanCatch(error) ==
  IF error.status = 429 THEN Err(RateLimitMessage, "")
  ELSE IF IncludesInvalidEthereumAddress(error) THEN Err(ProvideValidMessage, "")
  ELSE IF error.status = 404 THEN Err("Address not found or has no transactions.", "")
  ELSE error

\* the catch block of the rotating variant
RotatingCatch(error) ==
  IF error.status = 429 THEN Err(RotatingRateLimitMessage, "") ELSE error

\* the catch block of the strict variant
StrictCatch(error) ==
  Err("Failed to fetch token transactions: " \o error.message, error.detail)

\* the catch block of the legacy variant: the error becomes the narrative
LegacyCatch(error, address) ==
  Returned("errorText", "Error: " \o error.message, error.detail, Link(address))

(***************************************************************************)
(* External calls as they are recorded in the log.                         *)
(***************************************************************************)
Call(op, address, arg, key) ==
  [op |-> op, address |-> address, arg |-> arg, key |-> key]

PagedQuery == "page=1&offset=50&sort=desc"
RangeQuery == "startblock=0&endblock=99999999&sort=desc"

\* the single key of process.env.ETHERSCAN_API_KEY, and the key written
\* into the source
EnvKey == -1
SourceKey == -2

\* the language-model completions and failures
LlmResponses ==
  { [ok |-> TRUE, error |-> Err("", ""), throttling |-> FALSE],
    [ok |-> FALSE, error |-> Err("Connection error.", ""), throttling |-> FALSE],
    [ok |-> FALSE, error |-> Err("429 Rate limit reached for requests", ""),
     throttling |-> TRUE],
    [ok |-> FALSE, error |-> AxiosError(429), throttling |-> TRUE] }

\* no answer yet
NoResponse == [http |-> -1, status |-> "", message |-> "", result |-> Text("")]
NoCompletion == [ok |-> FALSE, error |-> Err("", ""), throttling |-> FALSE, received |-> FALSE]
Received(resp) == [ok |-> resp.ok, error |-> resp.error, throttling |-> resp.throttling, received |-> TRUE]

NoPayload == [sent |-> FALSE, data |-> <<>>]
Sent(data) == [sent |-> TRUE, data |-> data]

\* the entry files that import the scan variant and register handlers on it
Hosts == {"index", "part_005", "backup", "part_002"}

\* the entry files that register the tool summarizeEthTransactions over the
\* pipeline that returns UrlToAccount; part_008:237-331 has the run function
\* of part_000
ToolHosts == {"part_000", "part_003"}

\* no handler is running: the pipeline is called directly, if at all
NoHandler == [name |-> "none", state |-> "none", task |-> JsUndefined]
Running(name) == [name |-> name, state |-> "running", task |-> JsUndefined]

\* runApp has not been called
NoTokenData == [ok |-> FALSE, names |-> {}, called |-> FALSE]
TokenData(held) == [ok |-> held.ok, names |-> held.names, called |-> TRUE]

\* no key has been taken yet
NoKey == -3

\* ./tokens.json does not exist
NoFile == [exists |-> FALSE, address |-> <<>>]
File(address) == [exists |-> TRUE, address |-> address]

\* no balance lookup has been answered
NoAnswer == [http |-> -1, status |-> "", message |-> "", result |-> Text("")]

Init ==
  /\ env \in SUBSET requiredEnvVars
  /\ variant \in Variants
  /\ nkeys \in (IF variant = "rotating" THEN 0..MaxKeys ELSE {0})
  /\ phase = "boot"
  /\ apiIndex = 0
  /\ pc = "idle"
  /\ walletAddress = JsUndefined
  /\ normalizedAddress = <<>>
  /\ balanceOf = [c \in Contracts |-> "0"]
  /\ transactions = <<>>
  /\ simplifiedTx = <<>>
  /\ recentTransactions = <<>>
  /\ idx = 0
  /\ updatedTransaction = <<>>
  /\ payload = NoPayload
  /\ outcome = Pending
  /\ log = <<>>
  /\ response = NoResponse
  /\ completion = NoCompletion
  /\ throttled = {}
  /\ host \in (IF variant = "scan" THEN Hosts \cup {"none"}
               ELSE IF variant = "legacy" THEN ToolHosts \cup {"none"}
               ELSE {"none"})
  /\ handler = NoHandler
  /\ answer = NoAnswer
  /\ tokenData = NoTokenData
  /\ lastKey = NoKey
  /\ tokensFile = NoFile

\* the checks made while the entry point and the pipeline module load
Startup ==
  /\ phase = "boot"
  /\ phase' = IF /\ (ChecksEnv(variant) /\ host \notin ToolHosts) => requiredEnvVars \subseteq env
                 /\ variant = "rotating" => nkeys > 0
                THEN "running" ELSE "fatal"
  /\ UNCHANGED <<env, variant, nkeys, apiIndex, pc, walletAddress,
                 normalizedAddress, balanceOf, transactions, simplifiedTx,
                 recentTransactions, idx, updatedTransaction, payload, outcome,
                 log, response, completion, throttled, host, hostSide>>

(***************************************************************************)
(* The scan variant: ETHWalletScanFunction.js, summarizeTokenTransactions  *)
(* with the balance filter.                                                *)
(***************************************************************************)
\* the negation of the test that throws 'Invalid Ethereum address format'
ScanValid(v) == ~Falsy(v) /\ v.t = "string" /\ MatchesAddress(v.s)

\* response.data.result || response.data.message
ResultOrMessage(resp) ==
  IF FalsyResult(resp.result) THEN resp.message ELSE ResultText(resp.result)

\* !transactions || transactions.length === 0
NoTransactions(result) ==
  FalsyResult(result) \/ (result.t = "array" /\ result.list = <<>>)

\* has the loop over simplifiedTx reached its last element
LastLookupOffByOne(i, list) == i + 1 >= Len(list)

LastLookup(i, list) == i >= Len(list)

\* the token-transaction request of the scan variant
ScanRequestAsGiven(v) == Call("tokentx", v.s, PagedQuery, EnvKey)

ScanRequest(v) == Call("tokentx", ToLowerCase(v.s), PagedQuery, EnvKey)

\* summarizeTokenTransactions is entered with the argument v
StartScan(v, bal) ==
  /\ phase = "running" /\ pc = "idle" /\ variant = "scan"
  /\ walletAddress' = v
  /\ balanceOf' = bal
  /\ IF ScanValid(v)
       THEN /\ normalizedAddress' = ToLowerCase(v.s)
            /\ log' = Append(log, ScanRequest(v))
            /\ pc' = "fetch"
            /\ UNCHANGED outcome
       ELSE /\ outcome' = Thrown(ScanCatch(Err("Invalid Ethereum address format", "")))
            /\ pc' = "done"
            /\ UNCHANGED <<normalizedAddress, log>>
  /\ UNCHANGED <<deployment, response, completion, apiIndex, transactions, simplifiedTx,
                 recentTransactions, idx, updatedTransaction, payload, throttled>>
  /\ UNCHANGED <<answer, tokenData, lastKey, tokensFile>>

\* a caller other than the handlers imports the function and calls it
InvokeScan(v, bal) ==
  /\ host = "none" /\ handler = NoHandler
  /\ StartScan(v, bal)
  /\ UNCHANGED handler

FetchScan(resp) ==
  /\ pc = "fetch" /\ variant = "scan"
  /\ throttled' = IF SignalsThrottling(resp) THEN throttled \cup {"tokentx"} ELSE throttled
  /\ IF resp.http # 200
       THEN /\ outcome' = Thrown(ScanCatch(AxiosError(resp.http)))
            /\ pc' = "done"
            /\ UNCHANGED <<transactions, simplifiedTx, idx, log>>
     ELSE IF resp.status # "1" \/ resp.message = "NOTOK"
       THEN /\ outcome' = Thrown(ScanCatch(Err("Etherscan API error: ", ResultOrMessage(resp))))
            /\ pc' = "done"
            /\ UNCHANGED <<transactions, simplifiedTx, idx, log>>
     ELSE IF NoTransactions(resp.result)
       THEN /\ outcome' = Returned("noActivity", "No recent token transactions found.",
                                   "", Link(normalizedAddress))
            /\ pc' = "done"
            /\ UNCHANGED <<transactions, simplifiedTx, idx, log>>
     ELSE IF resp.result.t = "string"
       THEN /\ outcome' = Thrown(ScanCatch(Err("transactions.map is not a function", "")))
            /\ pc' = "done"
            /\ UNCHANGED <<transactions, simplifiedTx, idx, log>>
     ELSE /\ transactions' = resp.result.list
          /\ simplifiedTx' = MapThenSlice(resp.result.list, normalizedAddress)
          /\ idx' = 1
          /\ log' = Append(log, Call("delay", <<>>, "5000", EnvKey))
          /\ pc' = "delay"
          /\ UNCHANGED outcome
  /\ response' = resp
  /\ UNCHANGED <<deployment, completion, apiIndex, walletAddress, normalizedAddress, balanceOf,
                 recentTransactions, updatedTransaction, payload>>
  /\ UNCHANGED hostSide

\* getTokenBalance after its delay: the tokenbalance request goes out
DelayElapsedInPairs ==
  /\ pc = "delay"
  /\ log' = log \o << Call("tokenbalance", normalizedAddress,
                            simplifiedTx[idx].contractAddress, log[Len(log)].key),
                       Call("tokenbalance", normalizedAddress,
                            simplifiedTx[Len(simplifiedTx)].contractAddress,
                            log[Len(log)].key) >>
  /\ pc' = "balance"
  /\ answer' = NoAnswer
  /\ UNCHANGED <<deployment, response, completion, apiIndex, walletAddress,
                 normalizedAddress, balanceOf, transactions, simplifiedTx,
                 recentTransactions, idx, updatedTransaction, payload, outcome,
                 throttled, handler, tokenData, lastKey, tokensFile>>

DelayElapsed ==
  /\ pc = "delay"
  /\ log' = Append(log, Call("tokenbalance", normalizedAddress,
                             simplifiedTx[idx].contractAddress, log[Len(log)].key))
  /\ pc' = "balance"
  /\ UNCHANGED <<deployment, response, completion, apiIndex, walletAddress, normalizedAddress, balanceOf,
                 transactions, simplifiedTx, recentTransactions, idx,
                 updatedTransaction, payload, outcome, throttled>>
  /\ answer' = NoAnswer
  /\ UNCHANGED <<handler, tokenData, lastKey, tokensFile>>

\* what getTokenBalance of the scan variant returns for an answer
ScanBalance(resp) ==
  IF resp.http # 200 THEN "0"
  ELSE IF FalsyResult(resp.result) THEN "0"
  ELSE ResultText(resp.result)

BalanceScan(resp) ==
  /\ pc = "balance" /\ variant = "scan"
  /\ resp \in BalanceResponses(balanceOf[simplifiedTx[idx].contractAddress])
  /\ throttled' = IF SignalsThrottling(resp) THEN throttled \cup {"tokenbalance"} ELSE throttled
  /\ LET kept == IF ScanBalance(resp) # "0"
                   THEN Append(updatedTransaction, simplifiedTx[idx])
                   ELSE updatedTransaction
     IN  /\ updatedTransaction' = kept
         /\ idx' = idx + 1
         /\ IF LastLookup(idx, simplifiedTx)
              THEN /\ payload' = Sent(kept)
                   /\ log' = Append(log, Call("completion", <<>>, "gpt-4", EnvKey))
                   /\ pc' = "llm"
              ELSE /\ log' = Append(log, Call("delay", <<>>, "5000", EnvKey))
                   /\ pc' = "delay"
                   /\ UNCHANGED payload
  /\ UNCHANGED <<deployment, response, completion, apiIndex, walletAddress, normalizedAddress, balanceOf,
                 transactions, simplifiedTx, recentTransactions, outcome>>
  /\ answer' = resp
  /\ UNCHANGED <<handler, tokenData, lastKey, tokensFile>>

LlmScanNeverAnswered(resp) ==
  /\ pc = "llm" /\ variant = "scan"
  /\ UNCHANGED vars

LlmScan(resp) ==
  /\ pc = "llm" /\ variant = "scan"
  /\ throttled' = IF resp.throttling THEN throttled \cup {"completion"} ELSE throttled
  /\ outcome' = IF resp.ok
                  THEN Returned("narrative", "completion", "", Link(normalizedAddress))
                  ELSE Thrown(ScanCatch(resp.error))
  /\ pc' = "done"
  /\ completion' = Received(resp)
  /\ UNCHANGED <<deployment, response, apiIndex, walletAddress, normalizedAddress, balanceOf,
                 transactions, simplifiedTx, recentTransactions, idx,
                 updatedTransaction, payload, log>>
  /\ answer' = NoAnswer
  /\ UNCHANGED <<handler, tokenData, lastKey, tokensFile>>

\* the caller has the result or the error; nothing of the invocation is kept
Return ==
  /\ \/ handler = NoHandler /\ pc = "done"
     \/ handler.state \in {"returned", "escaped"}
  /\ pc' = "idle"
  /\ handler' = NoHandler
  /\ answer' = NoAnswer
  /\ tokenData' = NoTokenData
  /\ walletAddress' = JsUndefined
  /\ normalizedAddress' = <<>>
  /\ balanceOf' = [c \in Contracts |-> "0"]
  /\ transactions' = <<>>
  /\ simplifiedTx' = <<>>
  /\ recentTransactions' = <<>>
  /\ idx' = 0
  /\ updatedTransaction' = <<>>
  /\ payload' = NoPayload
  /\ outcome' = Pending
  /\ log' = <<>>
  /\ response' = NoResponse
  /\ completion' = NoCompletion
  /\ throttled' = {}
  /\ UNCHANGED <<deployment, apiIndex, lastKey, tokensFile>>

(***************************************************************************)
(* The rotating variant: part_010, API-key rotation and the Moralis        *)
(* holdings filter.                                                        *)
(***************************************************************************)
\* apiIndex = (apiIndex + 1) % apiKeys.length
NextIndexUnwrapped(i) == i + 1

NextIndex(i) == (i + 1) % nkeys

\* another invocation, running while this one awaits, takes a key:
\* const apiKey = apiKeys[apiIndex]; apiIndex = (apiIndex + 1) % apiKeys.length
ConcurrentKeyUse ==
  /\ phase = "running" /\ variant = "rotating"
  /\ pc \in {"fetch", "delay", "balance", "moralis", "llm"}
  /\ lastKey' = apiIndex
  /\ apiIndex' = NextIndex(apiIndex)
  /\ UNCHANGED <<deployment, pc, walletAddress, normalizedAddress, balanceOf,
                 transactions, simplifiedTx, recentTransactions, idx,
                 updatedTransaction, payload, outcome, log, response,
                 completion, throttled, handler, answer, tokenData, tokensFile>>

InvokeRotating(v, bal) ==
  /\ phase = "running" /\ pc = "idle" /\ variant = "rotating"
  \* the parameter is overwritten: walletAddress = walletAddress.trim().toLowerCase()
  /\ walletAddress' = IF v.t = "string" THEN Str(ToLowerCase(Trim(v.s))) ELSE v
  /\ balanceOf' = bal
  /\ IF v.t # "string"
       THEN \* walletAddress.trim is not callable
            /\ outcome' = Thrown(RotatingCatch(Err("walletAddress.trim is not a function", "")))
            /\ pc' = "done"
            /\ UNCHANGED <<normalizedAddress, log, apiIndex, lastKey>>
     ELSE IF ToLowerCase(Trim(v.s)) = <<>> \/ ~MatchesAddress(ToLowerCase(Trim(v.s)))
       THEN \* the detail is the trimmed, lowercased argument
            /\ outcome' = Thrown(RotatingCatch(Err("Invalid Ethereum address format: ",
                                                   "walletAddress")))
            /\ pc' = "done"
            /\ UNCHANGED <<normalizedAddress, log, apiIndex, lastKey>>
     ELSE /\ normalizedAddress' = ToLowerCase(Trim(v.s))
          /\ log' = Append(log, Call("tokentx", ToLowerCase(Trim(v.s)), PagedQuery, apiIndex))
          /\ lastKey' = apiIndex
          /\ apiIndex' = NextIndex(apiIndex)
          /\ pc' = "fetch"
          /\ UNCHANGED outcome
  /\ UNCHANGED <<deployment, response, completion, transactions, simplifiedTx, recentTransactions, idx,
                 updatedTransaction, payload, throttled>>
  /\ UNCHANGED <<handler, answer, tokenData, tokensFile>>

FetchRotating(resp) ==
  /\ pc = "fetch" /\ variant = "rotating"
  /\ throttled' = IF SignalsThrottling(resp) THEN throttled \cup {"tokentx"} ELSE throttled
  /\ IF resp.http # 200
       THEN /\ outcome' = Thrown(RotatingCatch(AxiosError(resp.http)))
            /\ pc' = "done"
            /\ UNCHANGED <<transactions, simplifiedTx, idx, log, apiIndex, lastKey>>
     ELSE IF resp.status # "1" \/ resp.message = "NOTOK"
       THEN /\ outcome' = Thrown(RotatingCatch(Err("Etherscan API error: ", ResultOrMessage(resp))))
            /\ pc' = "done"
            /\ UNCHANGED <<transactions, simplifiedTx, idx, log, apiIndex, lastKey>>
     ELSE IF NoTransactions(resp.result)
       THEN /\ outcome' = Returned("noActivity", "No recent token transactions found.",
                                   "", Link(normalizedAddress))
            /\ pc' = "done"
            /\ UNCHANGED <<transactions, simplifiedTx, idx, log, apiIndex, lastKey>>
     ELSE IF resp.result.t = "string"
       THEN \* a string has slice but its result has no map
            /\ outcome' = Thrown(RotatingCatch(Err("transactions.slice(...).map is not a function", "")))
            /\ pc' = "done"
            /\ UNCHANGED <<transactions, simplifiedTx, idx, log, apiIndex, lastKey>>
     ELSE /\ transactions' = resp.result.list
          /\ simplifiedTx' = SliceThenMap(resp.result.list, normalizedAddress)
          /\ idx' = 1
          /\ log' = Append(log, Call("delay", <<>>, "200", apiIndex))
          /\ lastKey' = apiIndex
          /\ apiIndex' = NextIndex(apiIndex)
          /\ pc' = "delay"
          /\ UNCHANGED outcome
  /\ response' = resp
  /\ UNCHANGED <<deployment, completion, walletAddress, normalizedAddress, balanceOf,
                 recentTransactions, updatedTransaction, payload>>
  /\ UNCHANGED <<handler, answer, tokenData, tokensFile>>

\* what getTokenBalance of the rotating variant returns for an answer
RotatingBalanceByKey(resp) ==
  IF apiIndex = 0 THEN "0"
  ELSE IF resp.http # 200 THEN "0"
  ELSE IF resp.status # "1" THEN "0"
  ELSE IF FalsyResult(resp.result) THEN "0"
  ELSE ResultText(resp.result)

RotatingBalance(resp) ==
  IF resp.http # 200 THEN "0"
  ELSE IF resp.status # "1" THEN "0"
  ELSE IF FalsyResult(resp.result) THEN "0"
  ELSE ResultText(resp.result)

BalanceRotating(resp) ==
  /\ pc = "balance" /\ variant = "rotating"
  /\ resp \in BalanceResponses(balanceOf[simplifiedTx[idx].contractAddress])
  /\ throttled' = IF SignalsThrottling(resp) THEN throttled \cup {"tokenbalance"} ELSE throttled
  /\ updatedTransaction' = IF RotatingBalance(resp) # "0"
                             THEN Append(updatedTransaction, simplifiedTx[idx])
                             ELSE updatedTransaction
  /\ idx' = idx + 1
  /\ IF LastLookup(idx, simplifiedTx)
       THEN /\ log' = Append(log, Call("getWalletTokenBalances", normalizedAddress, "", EnvKey))
            /\ pc' = "moralis"
            /\ UNCHANGED <<apiIndex, lastKey>>
       ELSE /\ log' = Append(log, Call("delay", <<>>, "200", apiIndex))
            /\ lastKey' = apiIndex
            /\ apiIndex' = NextIndex(apiIndex)
            /\ pc' = "delay"
  /\ UNCHANGED <<deployment, response, completion, walletAddress, normalizedAddress, balanceOf, transactions,
                 simplifiedTx, recentTransactions, payload, outcome>>
  /\ answer' = resp
  /\ UNCHANGED <<handler, tokenData, tokensFile>>

TokenNames == {t.tokenName : t \in SampleTx}

\* token.name.trim().replace(/\s+/g, ' ').toLowerCase()
NormalizeName(name) ==
  CASE name = "TokenA" -> "tokena" [] OTHER -> name

\* what runApp returns: the holdings Moralis reports, or [] when it fails
MoralisResponses ==
  {[ok |-> FALSE, names |-> {}]} \cup {[ok |-> TRUE, names |-> S] : S \in SUBSET TokenNames}

\* runApp has returned: filter by the held tokens and call the language model
MoralisRespond(held) ==
  /\ pc = "moralis" /\ variant = "rotating"
  /\ LET heldTokens == {NormalizeName(n) : n \in held.names}
         filteredTransactions ==
           SelectSeq(updatedTransaction, LAMBDA tx : tx.tokenName \in heldTokens)
     IN  payload' = Sent(filteredTransactions)
  /\ log' = Append(log, Call("completion", <<>>, "gpt-4o-mini", EnvKey))
  /\ pc' = "llm"
  /\ UNCHANGED <<deployment, response, completion, apiIndex, walletAddress, normalizedAddress, balanceOf,
                 transactions, simplifiedTx, recentTransactions, idx,
                 updatedTransaction, outcome, throttled>>
  /\ tokenData' = TokenData(held)
  /\ tokensFile' = IF held.ok THEN File(normalizedAddress) ELSE tokensFile
  /\ answer' = NoAnswer
  /\ UNCHANGED <<handler, lastKey>>

LlmRotating(resp) ==
  /\ pc = "llm" /\ variant = "rotating"
  /\ throttled' = IF resp.throttling THEN throttled \cup {"completion"} ELSE throttled
  /\ outcome' = IF resp.ok
                  THEN Returned("narrative", "completion", "", Link(normalizedAddress))
                  ELSE Thrown(RotatingCatch(resp.error))
  /\ pc' = "done"
  /\ completion' = Received(resp)
  /\ UNCHANGED <<deployment, response, apiIndex, walletAddress, normalizedAddress, balanceOf,
                 transactions, simplifiedTx, recentTransactions, idx,
                 updatedTransaction, payload, log>>
  /\ UNCHANGED hostSide

(***************************************************************************)
(* The legacy variant: ETHWalletScanFunction.js:117-158 and part_009.  No  *)
(* validation; every failure becomes the narrative of a normal result.     *)
(***************************************************************************)
StartLegacy(v) ==
  /\ phase = "running" /\ pc = "idle" /\ variant = "legacy"
  /\ walletAddress' = v
  /\ normalizedAddress' = ToStr(v)
  /\ log' = Append(log, Call("tokentx", ToStr(v), RangeQuery, SourceKey))
  /\ pc' = "fetch"
  /\ UNCHANGED <<deployment, response, completion, apiIndex, balanceOf, transactions, simplifiedTx,
                 recentTransactions, idx, updatedTransaction, payload, outcome,
                 throttled>>
  /\ UNCHANGED <<answer, tokenData, lastKey, tokensFile>>

InvokeLegacy(v) ==
  /\ host = "none" /\ handler = NoHandler
  /\ StartLegacy(v)
  /\ UNCHANGED handler

FetchLegacy(resp) ==
  /\ pc = "fetch" /\ variant = "legacy"
  /\ throttled' = IF SignalsThrottling(resp) THEN throttled \cup {"tokentx"} ELSE throttled
  /\ IF resp.http # 200
       THEN /\ outcome' = LegacyCatch(AxiosError(resp.http), normalizedAddress)
            /\ pc' = "done"
            /\ UNCHANGED <<transactions, recentTransactions, payload, log>>
     ELSE IF NoTransactions(resp.result)
       THEN /\ outcome' = Returned("noActivity", "No transactions found.", "",
                                   Link(normalizedAddress))
            /\ pc' = "done"
            /\ UNCHANGED <<transactions, recentTransactions, payload, log>>
     ELSE IF resp.result.t = "string"
       THEN /\ outcome' = LegacyCatch(Err("transactions.map is not a function", ""),
                                      normalizedAddress)
            /\ pc' = "done"
            /\ UNCHANGED <<transactions, recentTransactions, payload, log>>
     ELSE IF walletAddress.t # "string"
       THEN /\ outcome' = LegacyCatch(Err("walletAddress.toLowerCase is not a function", ""),
                                      normalizedAddress)
            /\ pc' = "done"
            /\ UNCHANGED <<transactions, recentTransactions, payload, log>>
     ELSE /\ transactions' = resp.result.list
          /\ recentTransactions' =
               RecentTransactions(resp.result.list, walletAddress.s, RecentWindow)
          /\ payload' = Sent(SummaryOf(
               RecentTransactions(resp.result.list, walletAddress.s, RecentWindow)))
          /\ log' = Append(log, Call("completion", <<>>, "gpt-4", EnvKey))
          /\ pc' = "llm"
          /\ UNCHANGED outcome
  /\ response' = resp
  /\ UNCHANGED <<deployment, completion, apiIndex, walletAddress, normalizedAddress, balanceOf,
                 simplifiedTx, idx, updatedTransaction>>
  /\ UNCHANGED hostSide

LlmLegacy(resp) ==
  /\ pc = "llm" /\ variant = "legacy"
  /\ throttled' = IF resp.throttling THEN throttled \cup {"completion"} ELSE throttled
  /\ outcome' = IF resp.ok
                  THEN Returned("narrative", "completion", "", Link(normalizedAddress))
                  ELSE LegacyCatch(resp.error, normalizedAddress)
  /\ pc' = "done"
  /\ completion' = Received(resp)
  /\ UNCHANGED <<deployment, response, apiIndex, walletAddress, normalizedAddress, balanceOf,
                 transactions, simplifiedTx, recentTransactions, idx,
                 updatedTransaction, payload, log>>
  /\ UNCHANGED hostSide

(***************************************************************************)
(* The strict variant: ETHWalletScanFunction.js:168-231.  Validation       *)
(* outside the try block, every later failure wrapped and rethrown.        *)
(***************************************************************************)
\* the negation of !walletAddress || !/^0x[a-fA-F0-9]{40}$/.test(walletAddress)
StrictValid(v) == ~Falsy(v) /\ MatchesAddress(ToStr(v))

\* the token-transaction request of the strict variant
StrictRequest(v) == Call("tokentx", ToStr(v), RangeQuery, EnvKey)

InvokeStrict(v) ==
  /\ phase = "running" /\ pc = "idle" /\ variant = "strict"
  /\ walletAddress' = v
  /\ IF StrictValid(v)
       THEN /\ normalizedAddress' = ToStr(v)
            /\ log' = Append(log, StrictRequest(v))
            /\ pc' = "fetch"
            /\ UNCHANGED outcome
       ELSE /\ outcome' = Thrown(Err(StrictInvalidMessage, ""))
            /\ pc' = "done"
            /\ UNCHANGED <<normalizedAddress, log>>
  /\ UNCHANGED <<deployment, response, completion, apiIndex, balanceOf, transactions, simplifiedTx,
                 recentTransactions, idx, updatedTransaction, payload, throttled>>
  /\ UNCHANGED hostSide

FetchStrict(resp) ==
  /\ pc = "fetch" /\ variant = "strict"
  /\ throttled' = IF SignalsThrottling(resp) THEN throttled \cup {"tokentx"} ELSE throttled
  /\ IF resp.http # 200
       THEN /\ outcome' = Thrown(StrictCatch(AxiosError(resp.http)))
            /\ pc' = "done"
            /\ UNCHANGED <<transactions, recentTransactions, payload, log>>
     ELSE IF resp.status = "0"
       THEN /\ outcome' = Thrown(StrictCatch(Err("Etherscan API Error: ",
                               IF resp.message = "" THEN "Unknown error" ELSE resp.message)))
            /\ pc' = "done"
            /\ UNCHANGED <<transactions, recentTransactions, payload, log>>
     ELSE IF NoTransactions(resp.result)
       THEN /\ outcome' = Returned("noActivity", "No transactions found.", "",
                                   Link(normalizedAddress))
            /\ pc' = "done"
            /\ UNCHANGED <<transactions, recentTransactions, payload, log>>
     ELSE IF resp.result.t = "string" \/ walletAddress.t # "string"
       THEN /\ outcome' = Thrown(StrictCatch(Err("transactions.map is not a function", "")))
            /\ pc' = "done"
            /\ UNCHANGED <<transactions, recentTransactions, payload, log>>
     ELSE /\ transactions' = resp.result.list
          /\ recentTransactions' =
               RecentTransactions(resp.result.list, walletAddress.s, RecentWindow)
          /\ payload' = Sent(SummaryOf(
               RecentTransactions(resp.result.list, walletAddress.s, RecentWindow)))
          /\ log' = Append(log, Call("completion", <<>>, "gpt-4", EnvKey))
          /\ pc' = "llm"
          /\ UNCHANGED outcome
  /\ response' = resp
  /\ UNCHANGED <<deployment, completion, apiIndex, walletAddress, normalizedAddress, balanceOf,
                 simplifiedTx, idx, updatedTransaction>>
  /\ UNCHANGED hostSide

LlmStrict(resp) ==
  /\ pc = "llm" /\ variant = "strict"
  /\ throttled' = IF resp.throttling THEN throttled \cup {"completion"} ELSE throttled
  /\ outcome' = IF resp.ok
                  THEN Returned("narrative", "completion", "", Link(normalizedAddress))
                  ELSE Thrown(StrictCatch(resp.error))
  /\ pc' = "done"
  /\ completion' = Received(resp)
  /\ UNCHANGED <<deployment, response, apiIndex, walletAddress, normalizedAddress, balanceOf,
                 transactions, simplifiedTx, recentTransactions, idx,
                 updatedTransaction, payload, log>>
  /\ UNCHANGED hostSide

(***************************************************************************)
(* The summary variant: part_008, the getLatestTokenTransactions           *)
(* capability with calculateTokenSummary, run inside a task.               *)
(***************************************************************************)
\* what getLatestTokenTransactions returns: [] on failure or on no records,
\* otherwise result.slice(0, limit)
LatestTokenTransactions(resp, limit) ==
  IF resp.http # 200 THEN Arr(<<>>)
  ELSE IF NoTransactions(resp.result) THEN Arr(<<>>)
  ELSE IF resp.result.t = "string" THEN resp.result
  ELSE Arr(Slice(resp.result.list, limit))

\* the argument passed the schema z.string().min(1)
InvokeSummary(v) ==
  /\ phase = "running" /\ pc = "idle" /\ variant = "summary"
  /\ v.t = "string" /\ v.s # <<>>
  /\ walletAddress' = v
  /\ normalizedAddress' = v.s
  /\ log' = log \o << Call("updateTaskStatus", <<>>, "in-progress", EnvKey),
                      Call("addLogToTask", <<>>, "info", EnvKey),
                      Call("tokentx", v.s, RangeQuery, SourceKey) >>
  /\ pc' = "fetch"
  /\ UNCHANGED <<deployment, response, completion, apiIndex, balanceOf, transactions, simplifiedTx,
                 recentTransactions, idx, updatedTransaction, payload, outcome,
                 throttled>>
  /\ UNCHANGED hostSide

\* the error branch of run: the task is marked errored, the message returned
SummaryFailure(message) ==
  /\ outcome' = Returned("errorResponse", message, "", NoLink)
  /\ log' = log \o << Call("updateTaskStatus", <<>>, "error", EnvKey),
                      Call("addLogToTask", <<>>, "error", EnvKey) >>
  /\ UNCHANGED <<transactions, payload>>

FetchSummary(resp) ==
  /\ pc = "fetch" /\ variant = "summary"
  /\ throttled' = IF SignalsThrottling(resp) THEN throttled \cup {"tokentx"} ELSE throttled
  /\ LET tokenTransactions == LatestTokenTransactions(resp, RecentWindow)
     IN  IF NoTransactions(tokenTransactions)
           THEN SummaryFailure("No token transactions found for this address.")
         ELSE IF tokenTransactions.t = "string"
           THEN SummaryFailure("transactions.forEach is not a function")
         ELSE /\ transactions' = tokenTransactions.list
              /\ payload' = [sent |-> FALSE,
                             data |-> calculateTokenSummary(tokenTransactions.list,
                                                            walletAddress.s)]
              /\ outcome' = Returned("analysis", "Successfully analyzed", "", NoLink)
              /\ log' = Append(log, Call("completeTask", <<>>, "analysis", EnvKey))
  /\ pc' = "done"
  /\ response' = resp
  /\ UNCHANGED <<deployment, completion, apiIndex, walletAddress, normalizedAddress, balanceOf,
                 simplifiedTx, recentTransactions, idx, updatedTransaction>>
  /\ UNCHANGED hostSide

(***************************************************************************)
(* The handlers of index.js and the doTask of part_005, which call the     *)
(* scan variant.  The calls to the platform (requestHumanAssistance,       *)
(* completeTask, sendChatMessage, markTaskAsErrored, updateTaskStatus) are *)
(* recorded in the log and return normally.                                *)
(***************************************************************************)
\* does the window of text that starts at i match 0x[a-fA-F0-9]{40}, with
\* the i flag or without it
MatchesAt(text, i, ignoreCase) ==
  /\ i + 1 + HexLen <= Len(text)
  /\ text[i] = "0"
  /\ text[i + 1] = "x" \/ (ignoreCase /\ text[i + 1] = "X")
  /\ \A k \in (i + 2)..(i + 1 + HexLen) : IsHexChar(text[k])

\* value?.match(pattern): the first match [0] of a string, <<>> for null
FirstMatch(value, ignoreCase) ==
  IF value.t # "string" THEN <<>>
  ELSE LET hits == {i \in 1..Len(value.s) : MatchesAt(value.s, i, ignoreCase)}
       IN  IF hits = {} THEN <<>>
           ELSE LET first == CHOOSE i \in hits : \A j \in hits : i <= j
                IN  SubSeq(value.s, first, first + 1 + HexLen)

\* texts a task or a chat message can carry
PlainText == Str(<<"p", "l", "a", "n">>)
ShortHex == Str(<<"0", "x", "1", "2", "3">>)
Mention(address) == Str(<<"s", "e", "e", " ">> \o address \o <<"!">>)
UpperPrefixed == Str(<<"0", "X">> \o SubSeq(ExampleAddr, 3, Len(ExampleAddr)))

\* action.task: its input, its description and the response to its last
\* human-assistance request
Task(input, description, assistance) ==
  [input |-> input, description |-> description, assistance |-> assistance,
   answeredIn |-> "response"]

\* the same task when the platform hands the human's answer over in the
\* property humanResponse of the request
InHumanResponse(task) == [task EXCEPT !.answeredIn = "humanResponse"]

Tasks ==
  { Task(JsUndefined, JsUndefined, JsUndefined),
    Task(ShortHex, PlainText, JsUndefined),
    Task(PlainText, Mention(ExampleMixed), JsUndefined),
    Task(Mention(ExampleAddr), JsUndefined, JsUndefined),
    Task(UpperPrefixed, JsUndefined, JsUndefined),
    Task(PlainText, PlainText, Mention(ExampleAddr)),
    InHumanResponse(Task(PlainText, PlainText, Mention(ExampleAddr))) }

\* the message of the first user entry of action.messages, '' without one
ChatMessages == {Str(<<>>), PlainText, ShortHex, Mention(ExampleMixed)}

\* what the schema of the capability lets through, lowercased by transform
SchemaOutputs == {Str(ToLowerCase(v.s)) : v \in ValidInputs}

\* the balances of the wallet the handlers are asked about: it still holds
\* the first token and has sold all of the second
Holdings == [c \in Contracts |-> IF c = "0xca" THEN "1000" ELSE "0"]

AskForAddress == "Please provide a valid Ethereum wallet address."
ErrorAnalyzing == "Error analyzing wallet: "

Platform(op, text) == Call(op, <<>>, text, EnvKey)

\* a call or a tool result whose text carries a link: the address the link
\* points to, <<>> for a link that is undefined
Carrying(op, text, link) == Call(op, link.address, text, EnvKey)

\* the entry files whose handlers are those of the class EthWalletAgent
AgentHosts == {"index", "backup"}

\* the link the handlers of the entry file read from the result: index.js
\* reads result.overviewURL, backupBeforeDIrectMessages.js reads
\* result.UrlToAccount, which the result of the scan variant does not have
LinkRead == IF host = "index" THEN outcome.link ELSE NoLink
Ended(name, how) == [name |-> name, state |-> how, task |-> JsUndefined]

\* the handler returns without having called the pipeline
ReturnsEarly(name, calls) ==
  /\ handler' = Ended(name, "returned")
  /\ log' = log \o calls
  /\ UNCHANGED <<deployment, response, completion, apiIndex, pc, walletAddress,
                 normalizedAddress, balanceOf, transactions, simplifiedTx,
                 recentTransactions, idx, updatedTransaction, payload, outcome,
                 throttled, answer, tokenData, lastKey, tokensFile>>

\* the pipeline has returned or thrown into the handler, which makes its
\* last call to the platform and ends
Settles(name, how, calls) ==
  /\ pc = "done" /\ handler.name = name /\ handler.state = "running"
  /\ handler' = [handler EXCEPT !.state = how]
  /\ log' = log \o calls
  /\ UNCHANGED <<deployment, response, completion, apiIndex, pc, walletAddress,
                 normalizedAddress, balanceOf, transactions, simplifiedTx,
                 recentTransactions, idx, updatedTransaction, payload, outcome,
                 throttled, answer, tokenData, lastKey, tokensFile>>

\* index.js, doTask up to the call of the pipeline
DoTask(task, bal) ==
  /\ phase = "running" /\ pc = "idle" /\ variant = "scan" /\ host \in AgentHosts
  /\ handler = NoHandler
  /\ LET fromInput == FirstMatch(task.input, FALSE)
         match == IF fromInput # <<>> THEN fromInput
                  ELSE FirstMatch(task.description, FALSE)
     IN  IF match = <<>>
           THEN ReturnsEarly("doTask", <<Platform("requestHumanAssistance", AskForAddress)>>)
           ELSE /\ handler' = Running("doTask")
                /\ StartScan(Str(match), bal)

\* index.js, doTask after the pipeline: completeTask, or the catch block
DoTaskSettles ==
  /\ host \in AgentHosts
  /\ Settles("doTask", "returned",
             IF outcome.state = "returned"
               THEN <<Carrying("completeTask", "Successfully analyzed transactions", LinkRead)>>
               ELSE <<Platform("requestHumanAssistance", ErrorAnalyzing \o outcome.text)>>)

\* index.js, respondToChat up to the call of the pipeline
RespondToChat(userMessage, bal) ==
  /\ phase = "running" /\ pc = "idle" /\ variant = "scan" /\ host = "index"
  /\ handler = NoHandler
  /\ LET match == FirstMatch(userMessage, FALSE)
     IN  IF match = <<>>
           THEN ReturnsEarly("respondToChat",
                  <<Platform("sendChatMessage", "Please provide a valid address (0x...).")>>)
           ELSE /\ handler' = Running("respondToChat")
                /\ StartScan(Str(match), bal)

\* index.js, respondToChat after the pipeline
RespondToChatSettles ==
  /\ host = "index"
  /\ Settles("respondToChat", "returned",
             IF outcome.state = "returned"
               THEN <<Carrying("sendChatMessage", "Successfully analyzed", outcome.link)>>
               ELSE <<Platform("sendChatMessage", ErrorAnalyzing \o outcome.text)>>)

\* index.js, run of the capability summarizeTokenTransactions
CapabilityRun(args, bal) ==
  /\ phase = "running" /\ pc = "idle" /\ variant = "scan" /\ host \in AgentHosts
  /\ handler = NoHandler
  /\ handler' = Running("run")
  /\ StartScan(args, bal)

\* run has no try block: what the pipeline throws leaves run
CapabilityRunSettles ==
  /\ host \in AgentHosts
  /\ Settles("run", IF outcome.state = "returned" THEN "returned" ELSE "escaped",
             IF outcome.state = "returned"
               THEN <<Carrying("toolResult", "Successfully analyzed wallet", LinkRead)>>
               ELSE <<>>)

\* backupBeforeDIrectMessages.js, respondToChat: one fixed message
BackupRespondToChat ==
  /\ phase = "running" /\ pc = "idle" /\ variant = "scan" /\ host = "backup"
  /\ handler = NoHandler
  /\ ReturnsEarly("respondToChat",
       <<Platform("sendChatMessage", "Please provide a wallet address starting with 0x.")>>)

\* String.prototype.includes
Includes(s, word) ==
  \E i \in 1..(Len(s) - Len(word) + 1) : SubSeq(s, i, i + Len(word) - 1) = word

PlanPrompt == "I'll help you analyze Ethereum wallet transactions. Please provide the Ethereum wallet address you'd like to analyze"
FormatPrompt == "I need a valid Ethereum wallet address to analyze."

\* part_004 and part_005, respondToChat: the last message is lowercased and
\* searched; an address found is handed to the capability analyzeWallet
\* through handleToolRoute, whose run validates it and calls the pipeline
RoutedRespondToChat(message, bal) ==
  /\ phase = "running" /\ pc = "idle" /\ variant = "scan" /\ host = "part_005"
  /\ handler = NoHandler
  /\ LET lastMessage == ToLowerCase(message.s)
         addressMatch == FirstMatch(Str(lastMessage), TRUE)
     IN  IF addressMatch # <<>>
           THEN /\ handler' = Running("respondToChat")
                /\ StartScan(Str(addressMatch), bal)
           ELSE ReturnsEarly("respondToChat",
                  <<Platform("sendChatMessage",
                             IF Includes(lastMessage, <<"p", "l", "a", "n">>)
                                  \/ Includes(lastMessage, <<"a", "n", "a", "l", "y", "z", "e">>)
                               THEN PlanPrompt
                               ELSE FormatPrompt)>>)

\* run of analyzeWallet returns a text to handleToolRoute in either case;
\* respondToChat awaits the route and ends without using what it returns
RoutedRespondToChatSettles ==
  /\ host = "part_005"
  /\ Settles("respondToChat", "returned",
             IF outcome.state = "returned"
               THEN <<Carrying("toolResult", "Analysis complete!", outcome.link)>>
               ELSE <<Platform("toolResult", ErrorAnalyzing \o outcome.text)>>)

\* the entry files whose doTask resumes from the last human-assistance
\* request: part_005 reads lastRequest.response, part_002 reads
\* lastRequest.humanResponse
AssistedHosts == {"part_005", "part_002"}

ResponseRead(task) ==
  IF task.answeredIn = (IF host = "part_002" THEN "humanResponse" ELSE "response")
    THEN task.assistance
    ELSE JsUndefined

\* part_005, doTask up to the first call to the platform
AssistedDoTask(task) ==
  /\ phase = "running" /\ pc = "idle" /\ variant = "scan" /\ host \in AssistedHosts
  /\ handler = NoHandler
  /\ handler' = [name |-> "doTask", state |-> "entered", task |-> task]
  /\ log' = Append(log, Platform("updateTaskStatus", "in-progress"))
  /\ UNCHANGED <<deployment, response, completion, apiIndex, pc, walletAddress,
                 normalizedAddress, balanceOf, transactions, simplifiedTx,
                 recentTransactions, idx, updatedTransaction, payload, outcome,
                 throttled, answer, tokenData, lastKey, tokensFile>>

\* part_005, doTask from there up to the call of the pipeline
AssistedDoTaskProceeds(bal) ==
  /\ host \in AssistedHosts /\ handler.name = "doTask" /\ handler.state = "entered"
  /\ LET task == handler.task
         fromResponse == FirstMatch(ResponseRead(task), TRUE)
         addressMatch == IF fromResponse # <<>> THEN fromResponse
                         ELSE FirstMatch(task.input, TRUE)
     IN  IF addressMatch = <<>>
           THEN ReturnsEarly("doTask",
                  <<Platform("requestHumanAssistance", "valid Ethereum wallet address")>>)
           ELSE /\ handler' = Running("doTask")
                /\ StartScan(Str(addressMatch), bal)

AssistedDoTaskSettlesTwice ==
  /\ host \in AssistedHosts
  /\ Settles("doTask", "returned",
             IF outcome.state = "returned"
               THEN <<Carrying("completeTask", "**Analysis Results:**", outcome.link)>>
               ELSE << Carrying("completeTask", "**Analysis Results:**", outcome.link),
                       Platform("markTaskAsErrored", "Error: " \o outcome.text) >>)

\* part_005, doTask after the pipeline
AssistedDoTaskSettles ==
  /\ host \in AssistedHosts
  /\ Settles("doTask", "returned",
             IF outcome.state = "returned"
               THEN <<Carrying("completeTask", "**Analysis Results:**", outcome.link)>>
               ELSE <<Platform("markTaskAsErrored", "Error: " \o outcome.text)>>)

(***************************************************************************)
(* The tool summarizeEthTransactions: part_000:26-113 (the same run at     *)
(* part_008:237-318) and part_003:25-46, over the legacy pipeline.         *)
(***************************************************************************)
\* the action of a tool call: none in the body of the request, one without
\* workspace and task, one of a task
NoAction == JsUndefined
BareAction == [t |-> "object", s |-> <<"{", "}">>]
TaskAction == [t |-> "object", s |-> <<"t", "a", "s", "k">>]
Actions == {NoAction, BareAction, TaskAction}

\* action?.workspace?.id && action?.task?.id
HasContext(action) == action = TaskAction

\* what the schema z.string().min(1) lets through
ToolArgs == {Str(ExampleMixed), Str(ExampleAddr \o <<"a">>)}

ContextRequired == "Task context required"

\* run up to its first await
ToolRun(args, action) ==
  /\ phase = "running" /\ pc = "idle" /\ variant = "legacy" /\ host \in ToolHosts
  /\ handler = NoHandler
  /\ IF host = "part_003"
       THEN /\ handler' = Running("run")
            /\ StartLegacy(args)
     ELSE IF HasContext(action)
       THEN /\ handler' = [name |-> "run", state |-> "entered", task |-> args]
            /\ log' = log \o << Platform("updateTaskStatus", "in-progress"),
                                Platform("addLogToTask", "info") >>
            /\ UNCHANGED <<deployment, response, completion, apiIndex, pc, walletAddress,
                           normalizedAddress, balanceOf, transactions, simplifiedTx,
                           recentTransactions, idx, updatedTransaction, payload,
                           outcome, throttled, answer, tokenData, lastKey, tokensFile>>
     ELSE IF action = NoAction
       THEN \* the catch block reads action.task of undefined: a TypeError
            /\ handler' = Ended("run", "escaped")
            /\ UNCHANGED <<deployment, response, completion, apiIndex, pc, walletAddress,
                           normalizedAddress, balanceOf, transactions, simplifiedTx,
                           recentTransactions, idx, updatedTransaction, payload,
                           outcome, throttled, answer, tokenData, lastKey, tokensFile,
                           log>>
       ELSE ReturnsEarly("run", <<Carrying("toolResult", ContextRequired, NoLink)>>)

\* part_000, run from the logs up to the call of the pipeline
ToolRunProceeds ==
  /\ host = "part_000" /\ handler.name = "run" /\ handler.state = "entered"
  /\ handler' = Running("run")
  /\ StartLegacy(handler.task)

\* run after the pipeline
ToolRunSettles ==
  /\ host \in ToolHosts
  /\ IF host = "part_003"
       THEN Settles("run", IF outcome.state = "returned" THEN "returned" ELSE "escaped",
                    IF outcome.state = "returned"
                      THEN <<Carrying("toolResult", "success", outcome.link)>>
                      ELSE <<>>)
       ELSE Settles("run", "returned",
                    IF outcome.state = "returned"
                      THEN << Carrying("completeTask", "Successfully analyzed transactions",
                                       outcome.link),
                              Carrying("toolResult", "Successfully analyzed transactions",
                                       outcome.link) >>
                      ELSE << Platform("updateTaskStatus", "error"),
                              Platform("addLogToTask", "error"),
                              Carrying("toolResult", outcome.text, NoLink) >>)

(***************************************************************************)
(* The system.                                                             *)
(***************************************************************************)
Next ==
  \/ Startup
  \/ \E v \in Inputs, bal \in [Contracts -> Balances] : InvokeScan(v, bal)
  \/ \E resp \in TokenTxResponses : FetchScan(resp)
  \/ DelayElapsed
  \/ \E resp \in UNION {BalanceResponses(b) : b \in Balances} : BalanceScan(resp)
  \/ \E resp \in LlmResponses : LlmScan(resp)
  \/ \E v \in Inputs, bal \in [Contracts -> Balances] : InvokeRotating(v, bal)
  \/ \E resp \in TokenTxResponses : FetchRotating(resp)
  \/ \E resp \in UNION {BalanceResponses(b) : b \in Balances} : BalanceRotating(resp)
  \/ \E held \in MoralisResponses : MoralisRespond(held)
  \/ \E resp \in LlmResponses : LlmRotating(resp)
  \/ \E v \in Inputs : InvokeLegacy(v)
  \/ \E resp \in TokenTxResponses : FetchLegacy(resp)
  \/ \E resp \in LlmResponses : LlmLegacy(resp)
  \/ \E v \in Inputs : InvokeStrict(v)
  \/ \E resp \in TokenTxResponses : FetchStrict(resp)
  \/ \E resp \in LlmResponses : LlmStrict(resp)
  \/ \E v \in Inputs : InvokeSummary(v)
  \/ \E resp \in TokenTxResponses : FetchSummary(resp)
  \/ \E task \in Tasks : DoTask(task, Holdings)
  \/ DoTaskSettles
  \/ \E m \in ChatMessages : RespondToChat(m, Holdings)
  \/ RespondToChatSettles
  \/ \E args \in SchemaOutputs : CapabilityRun(args, Holdings)
  \/ CapabilityRunSettles
  \/ BackupRespondToChat
  \/ \E m \in ChatMessages : RoutedRespondToChat(m, Holdings)
  \/ RoutedRespondToChatSettles
  \/ \E args \in ToolArgs, action \in Actions : ToolRun(args, action)
  \/ ToolRunProceeds
  \/ ToolRunSettles
  \/ \E task \in Tasks : AssistedDoTask(task)
  \/ AssistedDoTaskProceeds(Holdings)
  \/ AssistedDoTaskSettles
  \/ Return

Spec == Init /\ [][Next]_vars

(***************************************************************************)
(* calculateTokenSummary on its own: every list of the sample transfers,   *)
(* a transfer of a token named 'constructor' among them.                   *)
(***************************************************************************)
SummarySamples ==
  SampleTx \cup
    { Tx(OtherAddr, ExampleAddr, "constructor", <<"9", "0", "0">>, 2, 500, "0xh5", "0xcc") }

SummaryLists == SeqsUpTo(SummarySamples, MaxTx)

SummaryInit ==
  /\ env = requiredEnvVars
  /\ variant = "summary"
  /\ nkeys = 0
  /\ phase = "running"
  /\ apiIndex = 0
  /\ pc = "idle"
  /\ walletAddress \in ValidInputs
  /\ normalizedAddress = <<>>
  /\ balanceOf = [c \in Contracts |-> "0"]
  /\ transactions \in SummaryLists
  /\ simplifiedTx = <<>>
  /\ recentTransactions = <<>>
  /\ idx = 0
  /\ updatedTransaction = <<>>
  /\ payload = NoPayload
  /\ outcome = Pending
  /\ log = <<>>
  /\ response = NoResponse
  /\ completion = NoCompletion
  /\ throttled = {}
  /\ host = "none"
  /\ handler = NoHandler
  /\ answer = NoAnswer
  /\ tokenData = NoTokenData
  /\ lastKey = NoKey
  /\ tokensFile = NoFile

\* calculateTokenSummary(transactions, walletAddress) is evaluated
Summarize ==
  /\ pc = "idle"
  /\ payload' = [sent |-> FALSE,
                 data |-> calculateTokenSummary(transactions, walletAddress.s)]
  /\ pc' = "done"
  /\ UNCHANGED <<deployment, response, completion, apiIndex, walletAddress,
                 normalizedAddress, balanceOf, transactions, simplifiedTx,
                 recentTransactions, idx, updatedTransaction, outcome, log,
                 throttled, hostSide>>

SummaryNext == Summarize

SummarySpec == SummaryInit /\ [][SummaryNext]_vars

(***************************************************************************)
(* The balance filter on a list longer than its window: the upstream       *)
(* answers with one record more than slice(0, 10) keeps, all transfers of  *)
(* one token contract.                                                     *)
(***************************************************************************)
LongList ==
  [i \in 1..(ScanWindow + 1) |->
     Tx(ExampleAddr, OtherAddr, "TokenA", ExampleValue, 18, 300, "0xh1", "0xca")]

\* the answers to the token-transaction request: the long list, throttling,
\* and no records
FilterResponses ==
  { Envelope("1", "OK", Arr(LongList)),
    HttpFailure(429),
    Envelope("0", "No transactions found", Arr(<<>>)) }

FilterInit ==
  /\ Init
  /\ variant \in {"scan", "rotating"}
  /\ env = requiredEnvVars
  /\ nkeys = (IF variant = "rotating" THEN MaxKeys ELSE 0)
  /\ host = "none"

FilterNext ==
  \/ Startup
  \/ \E bal \in [Contracts -> Balances] : InvokeScan(Str(ExampleMixed), bal)
  \/ \E resp \in FilterResponses : FetchScan(resp)
  \/ DelayElapsed
  \/ \E resp \in UNION {BalanceResponses(b) : b \in Balances} : BalanceScan(resp)
  \/ \E resp \in LlmResponses : LlmScan(resp)
  \/ \E bal \in [Contracts -> Balances] : InvokeRotating(Str(ExampleMixed), bal)
  \/ \E resp \in FilterResponses : FetchRotating(resp)
  \/ \E resp \in UNION {BalanceResponses(b) : b \in Balances} : BalanceRotating(resp)
  \/ \E held \in MoralisResponses : MoralisRespond(held)
  \/ \E resp \in LlmResponses : LlmRotating(resp)
  \/ Return

FilterSpec == FilterInit /\ [][FilterNext]_vars

(***************************************************************************)
(* The rotating variant with invocations that overlap: while one           *)
(* invocation awaits, others take keys from the shared rotation.           *)
(***************************************************************************)
\* the answers to the token-transaction request: two transfers, throttling
RotationResponses ==
  { Envelope("1", "OK", Arr(SubSeq(LongList, 1, 2))), HttpFailure(429) }

RotationInit ==
  /\ Init
  /\ variant = "rotating"
  /\ env = requiredEnvVars
  /\ nkeys \in 1..MaxKeys
  /\ host = "none"

RotationNext ==
  \/ Startup
  \/ InvokeRotating(Str(ExampleMixed), Holdings)
  \/ \E resp \in RotationResponses : FetchRotating(resp)
  \/ DelayElapsed
  \/ \E resp \in UNION {BalanceResponses(b) : b \in Balances} : BalanceRotating(resp)
  \/ \E held \in MoralisResponses : MoralisRespond(held)
  \/ \E resp \in LlmResponses : LlmRotating(resp)
  \/ ConcurrentKeyUse
  \/ Return

RotationSpec == RotationInit /\ [][RotationNext]_vars

(***************************************************************************)
(* The window on its own: every list of the sample transfers and the long  *)
(* list, cut at every window size, in the order of ETHWalletScanFunction   *)
(* (map, then slice) and in the order of part_010 (slice, then map); and   *)
(* filterAndSummarizeTransactions of testRun.js on the same lists.         *)
(***************************************************************************)
\* an outgoing transfer, an incoming one and the outgoing one again
MixedList ==
  << Tx(ExampleAddr, OtherAddr, "TokenA", ExampleValue, 18, 300, "0xh1", "0xca"),
     Tx(OtherAddr, ExampleAddr, "TokenA", <<"2", "5", "0">>, 2, 400, "0xh3", "0xca"),
     Tx(ExampleAddr, OtherAddr, "TokenA", ExampleValue, 18, 300, "0xh1", "0xca") >>

WindowLists == TxLists \cup {LongList, MixedList}
WindowSizes == 0..(MaxTx + 1) \cup {ScanWindow}

WindowInit ==
  /\ env = requiredEnvVars
  /\ variant \in {"scan", "rotating", "legacy"}
  /\ nkeys = (IF variant = "rotating" THEN MaxKeys ELSE 0)
  /\ phase = "running"
  /\ apiIndex = 0
  /\ pc = "idle"
  /\ walletAddress \in ValidInputs
  /\ normalizedAddress = ToLowerCase(walletAddress.s)
  /\ balanceOf = [c \in Contracts |-> "0"]
  /\ transactions \in WindowLists
  /\ simplifiedTx = <<>>
  /\ recentTransactions = <<>>
  /\ idx = 0
  /\ updatedTransaction = <<>>
  /\ payload = NoPayload
  /\ outcome = Pending
  /\ log = <<>>
  /\ response = NoResponse
  /\ completion = NoCompletion
  /\ throttled = {}
  /\ host = "none"
  /\ handler = NoHandler
  /\ answer = NoAnswer
  /\ tokenData = NoTokenData
  /\ lastKey = NoKey
  /\ tokensFile = NoFile

\* simplifiedTx is computed, in the order of the variant
TakeWindow(n) ==
  /\ pc = "idle" /\ variant \in {"scan", "rotating"}
  /\ simplifiedTx' = IF variant = "scan"
                       THEN MapThenSliceAt(transactions, normalizedAddress, n)
                       ELSE SliceThenMapAt(transactions, normalizedAddress, n)
  /\ pc' = "done"
  /\ UNCHANGED <<deployment, response, completion, apiIndex, walletAddress,
                 normalizedAddress, balanceOf, transactions, recentTransactions,
                 idx, updatedTransaction, payload, outcome, log, throttled,
                 hostSide>>

\* filterAndSummarizeTransactions(transactions, walletAddress, limit)
FilterAndSummarize(limit) ==
  /\ pc = "idle" /\ variant = "legacy"
  /\ recentTransactions' = RecentTransactions(transactions, walletAddress.s, limit)
  /\ payload' = [sent |-> FALSE,
                 data |-> filterAndSummarizeTransactions(transactions, walletAddress.s,
                                                         limit).summary]
  /\ pc' = "done"
  /\ UNCHANGED <<deployment, response, completion, apiIndex, walletAddress,
                 normalizedAddress, balanceOf, transactions, simplifiedTx,
                 idx, updatedTransaction, outcome, log, throttled, hostSide>>

WindowNext ==
  \/ \E n \in WindowSizes : TakeWindow(n)
  \/ \E limit \in WindowSizes : FilterAndSummarize(limit)

WindowSpec == WindowInit /\ [][WindowNext]_vars

\* every external call of the scan variant is answered or fails in the end,
\* and the timer of delay() fires
Answered ==
  /\ WF_vars(\E resp \in FilterResponses : FetchScan(resp))
  /\ WF_vars(DelayElapsed)
  /\ WF_vars(\E resp \in UNION {BalanceResponses(b) : b \in Balances} : BalanceScan(resp))
  /\ WF_vars(\E resp \in LlmResponses : LlmScan(resp))

FairFilterSpec == FilterSpec /\ Answered

(***************************************************************************)
(* Vocabulary of the properties.                                           *)
(***************************************************************************)
Range(list) == {list[i] : i \in 1..Len(list)}

\* the positions of the log that hold a call of the given kind
CallsOf(op) == {i \in 1..Len(log) : log[i].op = op}

\* the requests to the token-transaction API, the balance lookup and the
\* language model
PipelineCalls == CallsOf("tokentx") \cup CallsOf("tokenbalance") \cup CallsOf("completion")

\* 0x followed by exactly forty hexadecimal digits, stated on the text itself
HexAlphabet ==
  {"0", "1", "2", "3", "4", "5", "6", "7", "8", "9",
   "a", "b", "c", "d", "e", "f", "A", "B", "C", "D", "E", "F"}

WellFormedAddress(s) ==
  /\ Len(s) = 42
  /\ SubSeq(s, 1, 2) = <<"0", "x">>
  /\ {s[i] : i \in 3..Len(s)} \subseteq HexAlphabet

\* the argument is a string that matches ^0x[a-fA-F0-9]{40}$
WellFormedInput(v) == v.t = "string" /\ WellFormedAddress(v.s)

CasePairs ==
  {<<"a", "A">>, <<"b", "B">>, <<"c", "C">>, <<"d", "D">>, <<"e", "E">>, <<"f", "F">>,
   <<"g", "G">>, <<"x", "X">>}

\* two strings are equal up to the case of their letters
SameIgnoringCase(a, b) ==
  /\ Len(a) = Len(b)
  /\ \A i \in 1..Len(a) :
       a[i] = b[i] \/ <<a[i], b[i]>> \in CasePairs \/ <<b[i], a[i]>> \in CasePairs

InvalidAddressMessages == {ProvideValidMessage, StrictInvalidMessage}

Queried == IF variant = "rotating" THEN Trim(walletAddress.s) ELSE walletAddress.s

Sources(hash) == {r \in Range(transactions) : r.hash = hash}

LastOfToken(name) ==
  LET at == {i \in 1..Len(transactions) : transactions[i].tokenName = name}
  IN  transactions[CHOOSE i \in at : \A j \in at : j <= i]

DirectionIsBySender ==
  /\ \A c \in Range(simplifiedTx) :
       /\ c.flow \in {"outflow", "inflow"}
       /\ \A r \in Sources(c.transactionHash) :
            (c.flow = "outflow") <=> SameIgnoringCase(r.from, Queried)
  /\ \A c \in Range(recentTransactions) :
       /\ c.direction \in {"Outflow", "Inflow"}
       /\ \A r \in Sources(c.hash) :
            (c.direction = "Outflow") <=> SameIgnoringCase(r.from, Queried)
  /\ (variant = "summary" /\ outcome.kind = "analysis") =>
       \A e \in Range(payload.data) :
         /\ e.outInflow \in {"Outflow", "Inflow"}
         /\ (e.outInflow = "Outflow") <=> SameIgnoringCase(LastOfToken(e.name).from, Queried)

\* a transfer the wallet sent to itself, its sender written in another case
\* than the queried address, stands classified as outflow next to a transfer
\* between two other accounts classified as inflow
DirectionWitness ==
  /\ variant = "scan"
  /\ walletAddress = Str(ExampleAddr)
  /\ \E c \in Range(simplifiedTx) : c.transactionHash = "0xh2" /\ c.flow = "outflow"
  /\ \E c \in Range(simplifiedTx) : c.transactionHash = "0xh4" /\ c.flow = "inflow"

(***************************************************************************)
(* C3.  A valid address for which the token-transaction API returns zero   *)
(* transfer records ends as a normal result, the "no activity" narrative   *)
(* with the explorer link, whatever status and message accompany the       *)
(* empty result.                                                           *)
(***************************************************************************)
EmptyAnswer == response.http = 200 /\ response.result = Arr(<<>>)

EmptyResultIsNoActivity ==
  (variant \in {"scan", "summary"} /\ pc = "done" /\ WellFormedInput(walletAddress)
     /\ EmptyAnswer)
    => /\ outcome.state = "returned"
       /\ outcome.kind = "noActivity"
       /\ outcome.link = Link(ToLowerCase(walletAddress.s))

(***************************************************************************)
(* C4.  Every classified transfer carries displayAmount = rawAmount /      *)
(* 10^decimals; the transfer of raw value 522350000000000000000 with 18    *)
(* decimals sent by 0x6dd63e4dd6201b20bc754b93b07de351ba053fd2 is Outflow  *)
(* with displayAmount 522.35.                                              *)
(***************************************************************************)
\* x * 10^d
TimesPow10(x, d) == IF x.m = 0 THEN x ELSE [m |-> x.m, e |-> x.e + d]

\* the classified transfer c of record r carries the normalised amount of r
CarriesAmount(c, r) ==
  /\ "value" \in DOMAIN c
  /\ TimesPow10(c.value, r.tokenDecimal) = ParseFloat(r.value)

\* 522.35
ExampleAmount == [m |-> 52235, e |-> -2]

EveryTransferCarriesAmount ==
  /\ \A c \in Range(simplifiedTx) :
       \A r \in Sources(c.transactionHash) :
         /\ CarriesAmount(c, r)
         /\ (r.value = ExampleValue /\ r.tokenDecimal = 18 /\ Queried = ExampleAddr)
              => (c.flow = "outflow" /\ c.value = ExampleAmount)
  /\ \A c \in Range(recentTransactions) :
       \A r \in Sources(c.hash) :
         /\ CarriesAmount(c, r)
         /\ (r.value = ExampleValue /\ r.tokenDecimal = 18 /\ Queried = ExampleAddr)
              => (c.direction = "Outflow" /\ c.value = ExampleAmount)

(***************************************************************************)
(* C5.  Balance filter: a transfer of the window whose token contract the  *)
(* wallet currently holds a zero balance of is absent from the list        *)
(* serialised to the language model.                                       *)
(***************************************************************************)
ZeroBalanceIsDropped ==
  (variant \in {"scan", "rotating"} /\ payload.sent)
    => \A c \in Range(simplifiedTx) :
         balanceOf[c.contractAddress] = "0" => c \notin Range(payload.data)

(***************************************************************************)
(* C6.  The steps of an invocation (scan and rotating variants) come in    *)
(* the order validate, fetch, classify, balance filter, summarise: no      *)
(* token-transaction request before a successful validation, no balance    *)
(* lookup before a successful non-empty fetch, and the language-model call *)
(* only after every balance lookup has returned, never after a failed      *)
(* validation, a failed fetch or an empty fetch.                           *)
(***************************************************************************)
\* the fetch was answered with success and at least one record
FetchedRecords ==
  /\ response.http = 200
  /\ response.status = "1"
  /\ response.message # "NOTOK"
  /\ response.result.t = "array"
  /\ response.result.list # <<>>

\* the argument passed the validation of the variant: as it stands in the
\* scan variant, trimmed and lowercased in the rotating variant
ValidationPassed ==
  /\ walletAddress.t = "string"
  /\ IF variant = "rotating"
       THEN WellFormedAddress(ToLowerCase(Trim(walletAddress.s)))
       ELSE WellFormedAddress(walletAddress.s)

StepsAreOrdered ==
  variant \in {"scan", "rotating"} =>
    /\ CallsOf("tokentx") # {} => ValidationPassed
    /\ \A i \in CallsOf("tokentx") : \A j \in PipelineCalls \cup CallsOf("delay") : i <= j
    /\ (CallsOf("delay") \cup CallsOf("tokenbalance")) # {} => FetchedRecords
    /\ \A i \in CallsOf("tokenbalance") : \E j \in CallsOf("tokentx") : j < i
    /\ CallsOf("completion") # {} =>
         /\ CallsOf("tokentx") # {}
         /\ FetchedRecords
         /\ Cardinality(CallsOf("tokenbalance")) = Len(simplifiedTx)
         /\ idx > Len(simplifiedTx)
         /\ \A i \in CallsOf("tokenbalance") : \A j \in CallsOf("completion") : i < j
         /\ Cardinality(CallsOf("completion")) = 1
    /\ payload.sent <=> CallsOf("completion") # {}
    /\ (outcome.state = "returned" /\ outcome.kind = "narrative")
         => CallsOf("completion") # {}

\* the language model has been called after two balance lookups
StepsWitness ==
  /\ variant = "scan"
  /\ pc = "llm"
  /\ Len(simplifiedTx) = 2
  /\ Cardinality(CallsOf("tokenbalance")) = 2
  /\ log[Len(log)].op = "completion"

(***************************************************************************)
(* C7.  An invocation that passes validation issues exactly one            *)
(* token-transaction request, for the lowercased address and the most      *)
(* recent 50 records sorted descending; when the request fails or is       *)
(* answered with a non-success status the invocation fails and no second   *)
(* request is made.                                                        *)
(***************************************************************************)
\* the request was rejected, or answered with a status other than success
FetchFailed ==
  \/ response.http \notin {-1, 200}
  \/ response.http = 200 /\ response.status # "1"

UpstreamErrorAnswer ==
  /\ response.http = 200
  /\ response.status # "1"
  /\ response.result.t = "string"
  /\ response.result.text # ""

UpstreamErrorIsThrown ==
  (variant \in {"scan", "legacy"} /\ pc = "done" /\ UpstreamErrorAnswer)
    => /\ outcome.state = "thrown"
       /\ outcome.detail = response.result.text
       /\ simplifiedTx = <<>>
       /\ recentTransactions = <<>>
       /\ ~payload.sent

(***************************************************************************)
(* C9.  An error of the language-model completion call makes the           *)
(* invocation fail with an error that reaches the caller; the call is not  *)
(* retried and no substitute narrative is returned as a result.            *)
(***************************************************************************)
CompletionErrorIsThrown ==
  (variant \in {"scan", "legacy"} /\ pc = "done" /\ completion.received /\ ~completion.ok)
    => /\ outcome.state = "thrown"
       /\ Cardinality(CallsOf("completion")) = 1

(***************************************************************************)
(* C10.  Whenever the block explorer (token-transaction request or balance *)
(* lookup) or the language model signals throttling, the invocation ends   *)
(* with the rate-limit "try again later" error, and the throttled call is  *)
(* not retried.                                                            *)
(***************************************************************************)
TryAgainMessages == {RateLimitMessage, RotatingRateLimitMessage}

\* the claim as stated
ThrottlingIsSurfaced ==
  (variant \in {"scan", "rotating"} /\ pc = "done" /\ throttled # {})
    => /\ outcome.state = "thrown"
       /\ outcome.text \in TryAgainMessages

\* the claim as amended: an HTTP 429 on the token-transaction request or on
\* the language-model call ends the invocation with the try-again error;
\* throttling reported in a 200 envelope by the token-transaction API, or by
\* a language-model error without response status, fails the invocation with
\* the upstream's own message; a throttled balance lookup is swallowed by
\* getTokenBalance and the invocation goes on to the language model; no call
\* is repeated
Status429IsSurfaced ==
  variant \in {"scan", "rotating"} =>
    /\ Cardinality(CallsOf("tokentx")) <= 1
    /\ Cardinality(CallsOf("completion")) <= 1
    /\ Cardinality(CallsOf("tokenbalance")) <= Len(simplifiedTx)
    /\ pc = "done" =>
         /\ (response.http = 429 \/ (completion.received /\ completion.error.status = 429))
              => (outcome.state = "thrown" /\ outcome.text \in TryAgainMessages)
         /\ (response.http = 200 /\ SignalsThrottling(response))
              => /\ outcome.state = "thrown"
                 /\ outcome.text = "Etherscan API error: "
                 /\ outcome.detail = "Max rate limit reached"
         /\ (completion.received /\ completion.throttling /\ completion.error.status # 429)
              => (outcome.state = "thrown" /\ outcome.text = completion.error.message)
         /\ "tokenbalance" \in throttled => completion.received

\* a balance lookup was throttled and the invocation went on; then the
\* language-model call failed with status 429 and the try-again error was
\* thrown
ThrottlingWitness ==
  /\ variant = "scan"
  /\ pc = "done"
  /\ "tokenbalance" \in throttled
  /\ completion.received
  /\ completion.error.status = 429
  /\ outcome.state = "thrown"
  /\ outcome.text = RateLimitMessage

(***************************************************************************)
(* C11.  Every failure of the pipeline is caught by the handler that       *)
(* invoked it (doTask, respondToChat, capability run) and turned into a    *)
(* user-facing message or a human-assistance request; no exception leaves  *)
(* a handler.                                                              *)
(***************************************************************************)
\* the calls by which a handler tells the user
UserFacing == {"requestHumanAssistance", "sendChatMessage"}

FailuresAreCaught ==
  (host = "index" /\ handler.name \in {"doTask", "respondToChat", "run"}
     /\ pc = "done" /\ outcome.state = "thrown" /\ handler.state # "running")
    => /\ handler.state = "returned"
       /\ log # <<>>
       /\ log[Len(log)].op \in UserFacing

(***************************************************************************)
(* C12.  Idempotence: the classified, filtered data handed to the language *)
(* model is determined by the address and the upstream answers (the        *)
(* token-transaction records, the balance answers, the holdings) of the    *)
(* invocation alone, so two invocations with the same address and the same *)
(* answers hand over the same data whatever happened in earlier            *)
(* invocations, the advance of the key-rotation index included.            *)
(***************************************************************************)
\* the window of the fetched records, classified against the address
ClassifiedWindow ==
  [i \in 1..(IF Len(transactions) < 10 THEN Len(transactions) ELSE 10) |->
     [flow |-> IF SameIgnoringCase(transactions[i].from, normalizedAddress)
                 THEN "outflow" ELSE "inflow",
      tokenName |-> transactions[i].tokenName,
      timestamp |-> [localeString |-> transactions[i].timeStamp * 1000],
      transactionHash |-> transactions[i].hash,
      contractAddress |-> transactions[i].contractAddress]]

\* does the answer to a balance lookup count as a balance other than '0'
CountsAsHeld(resp) ==
  /\ resp.http = 200
  /\ variant = "rotating" => resp.status = "1"
  /\ resp.result.t = "string"
  /\ resp.result.text \notin {"", "0"}

\* the transfers that pass the holdings of runApp
PassesHoldings(list) ==
  IF variant = "scan" THEN list
  ELSE SelectSeq(list, LAMBDA tx :
         \E n \in tokenData.names : tokenData.ok /\ NormalizeName(n) = tx.tokenName)

\* the window and the data handed over are functions of the answers
DataFollowsAnswers ==
  variant \in {"scan", "rotating"} =>
    /\ (pc \in {"delay", "balance", "moralis", "llm"} \/ payload.sent)
         => simplifiedTx = ClassifiedWindow
    /\ payload.sent => payload.data = PassesHoldings(updatedTransaction)

\* a step of the balance filter keeps the transfer exactly when the answer
\* it received counts as held
FilterFollowsAnswer ==
  (variant \in {"scan", "rotating"} /\ pc = "balance" /\ idx' = idx + 1)
    => updatedTransaction' =
         IF CountsAsHeld(answer') THEN Append(updatedTransaction, simplifiedTx[idx])
         ELSE updatedTransaction

SameAnswersSameData == [](DataFollowsAnswers) /\ [][FilterFollowsAnswer]_vars

\* an invocation that began with the rotation index advanced by earlier
\* ones has handed a kept transfer to the language model
SameAnswersWitness ==
  /\ variant = "rotating"
  /\ payload.sent
  /\ payload.data # <<>>
  /\ log[1].op = "tokentx"
  /\ log[1].key # 0

(***************************************************************************)
(* C13.  calculateTokenSummary: for every list of transfers the result has *)
(* exactly one entry per distinct token name; its cumulative amount is the *)
(* sum of the normalized amounts of all transfers of that token, inflows   *)
(* and outflows alike; its direction is that of the last transfer of the   *)
(* token in list order.                                                    *)
(***************************************************************************)
\* a decimal in hundredths, the finest unit of the sample amounts
Hundredths(x) == x.m * Pow10(x.e + 2)

\* the raw value of a transfer in hundredths of a token
RECURSIVE RawHundredths(_, _)
RawHundredths(digits, dec) ==
  IF dec <= 2 THEN DigitsValue(digits) * Pow10(2 - dec)
  ELSE RawHundredths(SubSeq(digits, 1, Len(digits) - 1), dec - 1)

\* the sum, in hundredths, of the transfers of a token in a list
RECURSIVE MovedHundredths(_, _)
MovedHundredths(list, name) ==
  IF list = <<>> THEN 0
  ELSE MovedHundredths(Tail(list), name)
         + (IF Head(list).tokenName = name
              THEN RawHundredths(Head(list).value, Head(list).tokenDecimal)
              ELSE 0)

SummaryIsPerToken ==
  (variant = "summary" /\ pc = "done" /\ transactions # <<>> /\ outcome.kind # "errorResponse")
    => LET result == payload.data
           names == {transactions[i].tokenName : i \in 1..Len(transactions)}
       IN  /\ \A name \in names :
                 Cardinality({k \in 1..Len(result) : result[k].name = name}) = 1
           /\ \A k \in 1..Len(result) :
                 /\ result[k].name \in names
                 /\ Hundredths(result[k].totalMove) = MovedHundredths(transactions, result[k].name)
                 /\ LET last == CHOOSE i \in 1..Len(transactions) :
                                  /\ transactions[i].tokenName = result[k].name
                                  /\ \A j \in (i + 1)..Len(transactions) :
                                       transactions[j].tokenName # result[k].name
                    IN  result[k].outInflow =
                          (IF SameIgnoringCase(transactions[last].from, walletAddress.s)
                             THEN "Outflow" ELSE "Inflow")

(***************************************************************************)
(* C14.  Window selection: the summarized transfers are sorted by          *)
(* transaction timestamp descending and then truncated to the window (20   *)
(* in the strict variant, 10 in the balance-filter variant), so whatever   *)
(* the order of the upstream records the window holds the records with the *)
(* greatest timestamps, most recent first.                                 *)
(***************************************************************************)
\* the window of the invocation, as the hashes of its transfers
WindowHashes ==
  IF variant = "scan"
    THEN [i \in 1..Len(simplifiedTx) |-> simplifiedTx[i].transactionHash]
    ELSE [i \in 1..Len(recentTransactions) |-> recentTransactions[i].hash]

\* the timestamp of the fetched record with the given hash
StampOf(hash) ==
  LET i == CHOOSE k \in 1..Len(transactions) : transactions[k].hash = hash
  IN  transactions[i].timeStamp

WindowIsMostRecentFirst ==
  (variant \in {"scan", "strict"} /\ transactions # <<>>)
    => /\ Len(WindowHashes) =
            (LET n == IF variant = "scan" THEN 10 ELSE 20
             IN  IF Len(transactions) < n THEN Len(transactions) ELSE n)
       /\ \A i, j \in 1..Len(WindowHashes) :
            i < j => StampOf(WindowHashes[i]) >= StampOf(WindowHashes[j])
       /\ \A k \in 1..Len(transactions) :
            (\A i \in 1..Len(WindowHashes) : WindowHashes[i] # transactions[k].hash)
              => \A i \in 1..Len(WindowHashes) :
                   StampOf(WindowHashes[i]) >= transactions[k].timeStamp

(***************************************************************************)
(* C15.  Within one invocation the network calls are strictly sequential:  *)
(* at every moment at most one external request (token-transaction fetch,  *)
(* balance lookup, language-model call) is outstanding, and each balance   *)
(* lookup starts only after the previous one has returned.                 *)
(***************************************************************************)
\* the balance lookups that have returned: the loop has gone past them
LookupsReturned == IF idx = 0 THEN 0 ELSE idx - 1

\* the requests that were sent and have not been answered
Outstanding ==
  (Cardinality(CallsOf("tokentx")) - (IF response = NoResponse THEN 0 ELSE 1))
    + (Cardinality(CallsOf("tokenbalance")) - LookupsReturned)
    + (Cardinality(CallsOf("completion")) - (IF completion.received THEN 1 ELSE 0))

OneRequestAtATime ==
  variant = "scan" =>
    /\ Outstanding \in {0, 1}
    /\ Outstanding = 1 <=> pc \in {"fetch", "balance", "llm"}
    /\ Cardinality(CallsOf("tokenbalance")) - LookupsReturned \in {0, 1}
    /\ \A i \in CallsOf("tokenbalance") :
         Cardinality({j \in CallsOf("tokenbalance") : j < i}) < idx

\* the second balance lookup is under way after the first has returned
SecondLookupWitness ==
  /\ variant = "scan"
  /\ pc = "balance"
  /\ idx = 2
  /\ Cardinality(CallsOf("tokenbalance")) = 2
  /\ Outstanding = 1

(***************************************************************************)
(* C16.  The balance filter issues exactly one balance-lookup request per  *)
(* transfer in the window (at most 10 per invocation, repeated token       *)
(* contracts are looked up again), and every balance-lookup request is     *)
(* preceded by the fixed delay.                                            *)
(***************************************************************************)
\* the positions of the balance lookups in the log, in order
LookupAt(k) ==
  CHOOSE i \in CallsOf("tokenbalance") :
    Cardinality({j \in CallsOf("tokenbalance") : j <= i}) = k

\* the loop over the window has ended
FilterEnded == pc \in {"moralis", "llm"} \/ CallsOf("completion") # {}

OneDelayedLookupPerTransfer ==
  variant \in {"scan", "rotating"} =>
    LET window == IF Len(transactions) < 10 THEN Len(transactions) ELSE 10
        lookups == Cardinality(CallsOf("tokenbalance"))
    IN  /\ lookups <= window
        /\ FilterEnded => lookups = window
        /\ \A k \in 1..lookups :
             /\ log[LookupAt(k)].arg = transactions[k].contractAddress
             /\ log[LookupAt(k)].address = normalizedAddress
        /\ \A i \in CallsOf("tokenbalance") :
             /\ i > 1
             /\ log[i - 1].op = "delay"
             /\ log[i - 1].arg = (IF variant = "scan" THEN "5000" ELSE "200")

\* eleven transfers of one token contract were fetched and ten lookups made,
\* each after its delay
RepeatedContractWitness ==
  /\ variant = "scan"
  /\ pc = "llm"
  /\ Len(transactions) = 11
  /\ Cardinality(CallsOf("tokenbalance")) = 10
  /\ Cardinality(CallsOf("delay")) = 10

(***************************************************************************)
(* C17.  Once started, an invocation runs to completion or fails: provided *)
(* each external call eventually responds or errors, the invocation        *)
(* eventually returns a result or raises an error, and the balance-filter  *)
(* loop ends after at most as many iterations as there are transfers in    *)
(* the window.                                                             *)
(***************************************************************************)
\* the invocation awaits something
InFlight == variant = "scan" /\ pc \in {"fetch", "delay", "balance", "llm"}

\* the invocation has returned or thrown
HasEnded == pc = "done" /\ outcome.state \in {"returned", "thrown"}

\* the loop never goes past the window
LoopIsBounded ==
  variant = "scan" =>
    /\ Len(simplifiedTx) <= 10
    /\ idx <= Len(simplifiedTx) + 1
    /\ Cardinality(CallsOf("delay")) <= Len(simplifiedTx)

InvocationEnds == [](LoopIsBounded) /\ (InFlight ~> HasEnded)

\* an invocation has returned after ten iterations of the loop
TenIterationsWitness ==
  /\ variant = "scan"
  /\ pc = "done"
  /\ outcome.state = "returned"
  /\ Len(simplifiedTx) = 10
  /\ idx = 11

(***************************************************************************)
(* C18.  API-key rotation: the rotation index stays in 0..nkeys-1, and     *)
(* every key-consuming call uses the key at the current index and advances *)
(* the index by one modulo the number of keys, under any interleaving of   *)
(* concurrent invocations.                                                 *)
(***************************************************************************)
\* the index is in range and stands one past the key taken last
IndexInRange ==
  (variant = "rotating" /\ phase = "running") =>
    /\ apiIndex \in 0..(nkeys - 1)
    /\ lastKey # NoKey =>
         /\ lastKey \in 0..(nkeys - 1)
         /\ apiIndex = (lastKey + 1) % nkeys

\* the step sends a new call of the given kinds
Sends(ops) ==
  /\ Len(log') = Len(log) + 1
  /\ log'[Len(log')].op \in ops

\* a step that takes a key takes the one at the index and advances the index;
\* the balance request carries the key its getTokenBalance took
KeyIsTakenInTurn ==
  variant = "rotating" =>
    /\ Sends({"tokentx", "delay"}) =>
         /\ log'[Len(log')].key = apiIndex
         /\ lastKey' = apiIndex
         /\ apiIndex' = (apiIndex + 1) % nkeys
    /\ Sends({"tokenbalance"}) =>
         /\ log'[Len(log')].key = log[Len(log)].key
         /\ apiIndex' = apiIndex
    /\ (apiIndex' # apiIndex \/ lastKey' # lastKey) =>
         /\ lastKey' = apiIndex
         /\ apiIndex' = (apiIndex + 1) % nkeys

KeysRotate == [](IndexInRange) /\ [][KeyIsTakenInTurn]_vars

\* two keys; another invocation took a key between this invocation's request
\* for the transfers and its first balance lookup, and the index wrapped
InterleavedKeysWitness ==
  /\ variant = "rotating"
  /\ nkeys = 2
  /\ Len(log) >= 3
  /\ log[1].op = "tokentx" /\ log[1].key = 1
  /\ log[2].op = "delay" /\ log[2].key = 1
  /\ log[3].op = "tokenbalance" /\ log[3].key = 1
  /\ apiIndex = 1

(***************************************************************************)
(* C19.  No intermediate state is retained between invocations: after an   *)
(* invocation returns or fails, the only state that can differ from before *)
(* it started is the API-key rotation index; no transaction data, result   *)
(* or file written by one invocation persists.                             *)
(***************************************************************************)
\* no invocation is running and none has a result to hand over
BetweenInvocations == pc = "idle" /\ handler = NoHandler

\* the data of an invocation is gone
InvocationStateIsDiscarded ==
  /\ walletAddress = JsUndefined
  /\ normalizedAddress = <<>>
  /\ transactions = <<>>
  /\ simplifiedTx = <<>>
  /\ recentTransactions = <<>>
  /\ updatedTransaction = <<>>
  /\ idx = 0
  /\ payload = NoPayload
  /\ outcome = Pending
  /\ response = NoResponse
  /\ completion = NoCompletion
  /\ answer = NoAnswer
  /\ tokenData = NoTokenData

NothingIsRetained ==
  BetweenInvocations => (InvocationStateIsDiscarded /\ tokensFile = NoFile)

(***************************************************************************)
(* C20.  When a task carries no Ethereum address in its input nor in its   *)
(* description, doTask issues a human-assistance request asking for an     *)
(* address, does not invoke the pipeline, and does not complete the task.  *)
(***************************************************************************)
\* neither the input nor the description holds 0x and forty hex digits
CarriesNoAddress(task) ==
  /\ FirstMatch(task.input, FALSE) = <<>>
  /\ FirstMatch(task.description, FALSE) = <<>>

\* doTask decides what to do with the task
DoTaskDecides(task) ==
  \/ DoTask(task, Holdings)
  \/ /\ handler.state = "entered" /\ handler.task = task
     /\ AssistedDoTaskProceeds(Holdings)

\* doTask has ended on a request for human assistance, without a call of
\* summarizeTokenTransactions
AsksAndEnds ==
  /\ handler'.state = "returned"
  /\ pc' = "idle" /\ outcome' = Pending
  /\ log' # <<>>
  /\ log'[Len(log')].op = "requestHumanAssistance"
  /\ \A i \in 1..Len(log') : log'[i].op \notin {"completeTask", "markTaskAsErrored"}

MissingAddressStep ==
  \A task \in Tasks : (CarriesNoAddress(task) /\ DoTaskDecides(task)) => AsksAndEnds

MissingAddressIsAskedFor == [][MissingAddressStep]_vars

(***************************************************************************)
(* C21.  A malformed address is never silently corrected: when the string  *)
(* handed to the pipeline (rotating variant), or the task input, chat      *)
(* message or human-assistance response in which a handler finds an        *)
(* address, does not match ^0x[a-fA-F0-9]{40}$ as written, no analysis is  *)
(* run on a trimmed or truncated version of it.                            *)
(***************************************************************************)
\* the step starts an analysis: the request for the transfers is sent
AnalysisStarts == CallsOf("tokentx") = {} /\ \E i \in 1..Len(log') : log'[i].op = "tokentx"

\* the text in which doTask of part_005 finds the address
FoundIn(task) ==
  IF FirstMatch(ResponseRead(task), TRUE) # <<>> THEN ResponseRead(task) ELSE task.input

\* the text in which doTask of index.js finds the address
SearchedBy(task) ==
  IF FirstMatch(task.input, FALSE) # <<>> THEN task.input ELSE task.description

MalformedStep ==
  /\ \A v \in Inputs, bal \in [Contracts -> Balances] :
       (~WellFormedInput(v) /\ InvokeRotating(v, bal)) => ~AnalysisStarts
  /\ \A task \in Tasks :
       (~WellFormedInput(SearchedBy(task)) /\ DoTask(task, Holdings)) => ~AnalysisStarts
  /\ \A m \in ChatMessages :
       (~WellFormedInput(m) /\ RespondToChat(m, Holdings)) => ~AnalysisStarts
  /\ \A task \in Tasks :
       (/\ handler.state = "entered" /\ handler.task = task
        /\ ~WellFormedInput(FoundIn(task))
        /\ AssistedDoTaskProceeds(Holdings)) => ~AnalysisStarts

MalformedIsNotCorrected == [][MalformedStep]_vars

(***************************************************************************)
(* C22.  Every successful analysis of the scan variant, the no-activity    *)
(* outcome included, yields a narrative and a link to the explorer page of *)
(* the analysed, lowercased address, and the task output, chat message or  *)
(* tool result the handler builds from it carries that same link, never an *)
(* absent or undefined one.                                                *)
(***************************************************************************)
\* the outputs a handler builds from a result
SuccessOutputs ==
  { i \in 1..Len(log) :
      \/ log[i].op \in {"completeTask", "toolResult"}
      \/ log[i].op = "sendChatMessage" /\ log[i].arg = "Successfully analyzed" }

ResultIsLinked ==
  outcome.state = "returned" =>
    /\ outcome.text # ""
    /\ normalizedAddress = ToLowerCase(walletAddress.s)
    /\ outcome.link = Link(normalizedAddress)

EverySuccessIsLinked ==
  variant = "scan" =>
    /\ ResultIsLinked
    /\ \A i \in SuccessOutputs :
         /\ outcome.state = "returned"
         /\ log[i].address # <<>>
         /\ log[i].address = outcome.link.address

(***************************************************************************)
(* C23.  A direct tool call of summarizeEthTransactions that carries only  *)
(* args.walletAddress with a valid address, and no task or workspace       *)
(* context, is answered with a successful analysis: the call neither       *)
(* throws inside the tool handler nor ends as a 'Task context required'    *)
(* error.                                                                  *)
(***************************************************************************)
\* the step is such a direct call
DirectToolCall ==
  \E action \in Actions \ {TaskAction} : ToolRun(Str(ExampleMixed), action)

\* the call has gone on to the analysis
GoesOnToAnalysis ==
  /\ handler'.state = "running"
  /\ \E i \in 1..Len(log') : log'[i].op = "tokentx"

DirectCallStep == DirectToolCall => GoesOnToAnalysis

\* once the pipeline has returned, the tool result is the analysis
ToolResultIsAnalysis ==
  (host \in ToolHosts /\ handler.name = "run" /\ handler.state # "running") =>
    /\ handler.state \in {"entered", "returned"}
    /\ \A i \in 1..Len(log) : log[i].op = "toolResult" => log[i].arg # ContextRequired

DirectCallIsServed == [](ToolResultIsAnalysis) /\ [][DirectCallStep]_vars

(***************************************************************************)
(* C24.  Absence of a required key at startup is fatal: when the service-  *)
(* identity key, the block-explorer key or the language-model key is       *)
(* missing (in the rotating variant also when no block-explorer key of the *)
(* rotation is set) the startup check raises before the agent is started,  *)
(* so no request is ever served with a required key missing.  Scan and     *)
(* rotating variants under index.js and the entry files with its check.    *)
(***************************************************************************)
\* the keys the startup checks of the variant ask for are there
KeysPresent ==
  /\ requiredEnvVars \subseteq env
  /\ variant = "rotating" => nkeys > 0

\* a request is being served, or has been
Serving == pc # "idle" \/ handler # NoHandler \/ log # <<>>

ReportsBalance(resp) ==
  /\ resp.http = 200
  /\ resp.status = "1"
  /\ resp.result.t = "string"
  /\ resp.result.text \in Balances \ {"0"}

\* a step of the filter: the lookup of the transfer at idx is answered
LookupAnswered ==
  variant \in {"scan", "rotating"} /\ pc = "balance" /\ idx' = idx + 1

OnlyHeldIsKeptStep ==
  LookupAnswered =>
    /\ updatedTransaction' # updatedTransaction => ReportsBalance(answer')
    /\ outcome' = outcome
    /\ pc' # "done"

OnlyHeldIsKept == [][OnlyHeldIsKeptStep]_vars

(***************************************************************************)
(* C26.  Truncating before or after direction classification gives the     *)
(* same window: for every upstream list and window size, classifying all   *)
(* records and then taking the first N yields exactly the same list, in    *)
(* the same order, as taking the first N records and then classifying.     *)
(***************************************************************************)
SameWindowStep ==
  \A n \in WindowSizes :
    TakeWindow(n) =>
      /\ simplifiedTx' = MapThenSliceAt(transactions, normalizedAddress, n)
      /\ simplifiedTx' = SliceThenMapAt(transactions, normalizedAddress, n)
      /\ Len(simplifiedTx') = IF Len(transactions) < n THEN Len(transactions) ELSE n

EitherOrderSameWindow == [][SameWindowStep]_vars

\* a window that drops a record and holds transfers of both directions
TruncatedWindowWitness ==
  /\ pc = "done"
  /\ variant = "scan"
  /\ simplifiedTx # <<>>
  /\ Len(simplifiedTx) < Len(transactions)
  /\ simplifiedTx[1].flow = "outflow"
  /\ transactions[Len(transactions)].from # transactions[1].from

(***************************************************************************)
(* C27.  filterAndSummarizeTransactions partitions the window: every       *)
(* transfer of the window appears in exactly one of the lists inflows and  *)
(* outflows, according to its direction; the two lists together hold       *)
(* min(number of records, limit) entries, and each list keeps the relative *)
(* order the transfers had in the window.                                  *)
(***************************************************************************)
\* the positions of the window whose transfer has the direction
PositionsOf(window, dir) == {i \in 1..Len(window) : window[i].direction = dir}

\* the list holds the transfers at the positions, in the order of the window
HoldsInOrder(list, window, positions) ==
  /\ Len(list) = Cardinality(positions)
  /\ \A i \in positions :
       list[Cardinality({j \in positions : j <= i})] = SummaryEntry(window[i])

SummaryPartitionsStep ==
  \A limit \in WindowSizes :
    FilterAndSummarize(limit) =>
      LET window == recentTransactions'
          summary == payload'.data
      IN  /\ Len(window) = IF Len(transactions) < limit THEN Len(transactions) ELSE limit
          /\ \A i \in 1..Len(window) :
               /\ window[i].direction \in {"Inflow", "Outflow"}
               /\ window[i].direction = DirectionOf(transactions[i], walletAddress.s)
          /\ Len(summary.inflows) + Len(summary.outflows) = Len(window)
          /\ HoldsInOrder(summary.inflows, window, PositionsOf(window, "Inflow"))
          /\ HoldsInOrder(summary.outflows, window, PositionsOf(window, "Outflow"))

SummaryPartitions == [][SummaryPartitionsStep]_vars

\* a window cut by the limit with an entry in each list
BothListsWitness ==
  /\ pc = "done"
  /\ variant = "legacy"
  /\ Len(recentTransactions) < Len(transactions)
  /\ Len(recentTransactions) = 2
  /\ Len(payload.data.inflows) = 1
  /\ Len(payload.data.outflows) = 1

(***************************************************************************)
(* C28.  Resuming after human assistance: when doTask runs for a task      *)
(* whose most recent human-assistance request has a response containing an *)
(* address, that address is analysed and the task completed, in preference *)
(* to any address in the task input; when neither that response nor the    *)
(* task input contains an address, a new human-assistance request is       *)
(* issued and the task stays uncompleted.                                  *)
(***************************************************************************)
\* the task doTask has entered with
Entered(task) ==
  /\ host \in AssistedHosts
  /\ handler.name = "doTask" /\ handler.state = "entered" /\ handler.task = task

\* the analysis of the address has started
Analyses(address) ==
  /\ handler'.state = "running"
  /\ walletAddress' = Str(address)
  /\ log'[Len(log')].op = "tokentx"

ResumeStep ==
  \A task \in Tasks :
    (Entered(task) /\ AssistedDoTaskProceeds(Holdings)) =>
      IF FirstMatch(task.assistance, TRUE) # <<>>
        THEN Analyses(FirstMatch(task.assistance, TRUE))
      ELSE IF FirstMatch(task.input, TRUE) # <<>>
        THEN Analyses(FirstMatch(task.input, TRUE))
      ELSE /\ handler'.state = "returned"
           /\ log'[Len(log')].op = "requestHumanAssistance"

\* a task is completed only after a successful analysis of an address
CompletedOnlyAfterAnalysis ==
  (host \in AssistedHosts /\ \E i \in 1..Len(log) : log[i].op = "completeTask") =>
    /\ outcome.state = "returned"
    /\ \E i \in 1..Len(log) : log[i].op = "tokentx"

ResumesFromAssistance == [](CompletedOnlyAfterAnalysis) /\ [][ResumeStep]_vars

(***************************************************************************)
(* C29.  For every doTask invocation with a task, the task is marked       *)
(* in-progress before any analysis, and then exactly one terminal call to  *)
(* the platform is made: completeTask, only after the pipeline returned a  *)
(* result; markTaskAsErrored, only after a failure; or                     *)
(* requestHumanAssistance, when no address was found.  A task is never     *)
(* both completed and marked errored by the same invocation.               *)
(***************************************************************************)
TerminalOps == {"completeTask", "markTaskAsErrored", "requestHumanAssistance"}
TerminalCalls == {i \in 1..Len(log) : log[i].op \in TerminalOps}

\* doTask of one of the entry files is running or has ended
InDoTask == variant = "scan" /\ handler.name = "doTask"

\* the first call of the invocation marks the task in-progress
MarkedInProgressFirst ==
  /\ log # <<>>
  /\ log[1].op = "updateTaskStatus" /\ log[1].arg = "in-progress"

\* one terminal call, the last call of the invocation, and none before the end
OneTerminalCall ==
  /\ handler.state # "returned" => TerminalCalls = {}
  /\ handler.state = "returned" => TerminalCalls = {Len(log)}
  /\ ~(CallsOf("completeTask") # {} /\ CallsOf("markTaskAsErrored") # {})
  /\ CallsOf("completeTask") # {} => outcome.state = "returned"
  /\ CallsOf("markTaskAsErrored") # {} => outcome.state = "thrown"

AddressPrompts ==
  { "Please provide a valid address (0x...).",
    "Please provide a wallet address starting with 0x.",
    PlanPrompt, FormatPrompt }

\* what the invocation did apart from the pipeline's requests and waits
HandlerCalls == {i \in 1..Len(log) : i \notin PipelineCalls \cup CallsOf("delay")}

\* respondToChat has ended: one chat message, the last thing it did, and the
\* message is the one that belongs to what the pipeline did
OneChatMessage ==
  (handler.name = "respondToChat" /\ handler.state = "returned") =>
    /\ CallsOf("sendChatMessage") = {Len(log)}
    /\ HandlerCalls = {Len(log)}
    /\ outcome = Pending =>
         log[Len(log)].arg \in AddressPrompts /\ PipelineCalls = {}
    /\ outcome.state = "returned" =>
         log[Len(log)] = Carrying("sendChatMessage", "Successfully analyzed", outcome.link)
    /\ outcome.state = "thrown" =>
         log[Len(log)] = Platform("sendChatMessage", ErrorAnalyzing \o outcome.text)

\* no chat message is sent while the pipeline runs
NoMessageBeforeTheEnd ==
  (handler.name = "respondToChat" /\ handler.state = "running") =>
    CallsOf("sendChatMessage") = {}

\* a message without an address is answered by the prompt at once
ChatWithoutAddressStep ==
  \A m \in ChatMessages :
    ( /\ FirstMatch(m, TRUE) = <<>>
      /\ \/ RespondToChat(m, Holdings)
         \/ RoutedRespondToChat(m, Holdings) )
    => /\ handler'.state = "returned"
       /\ outcome' = Pending
       /\ log'[Len(log')].op = "sendChatMessage"
       /\ log'[Len(log')].arg \in AddressPrompts

RespondToChatSendsOne ==
  [](OneChatMessage /\ NoMessageBeforeTheEnd) /\ [][ChatWithoutAddressStep]_vars

====
